---- MODULE Spec2Model ----
(***************************************************************************)
(* Vehicle listing backend: the Scooter collection (models/Scooter.js) and *)
(* the listing routes (routes/scooterRoutes.js, identical to               *)
(* routes/bikeRoutes.js up to the resource name).                          *)
(*                                                                         *)
(* A JavaScript object is a function from the names of the properties it   *)
(* has to their values; an absent property is absent from the domain.     *)
(* A free-text string is a sequence of one-character strings, so that     *)
(* trimming is computed; enum-valued strings are TLA+ strings.            *)
(***************************************************************************)
EXTENDS Integers, Sequences, FiniteSets, TLC

VARIABLES
    scooters,   \* the Scooter collection: _id -> stored document
    lastId,     \* number of _ids handed out so far
    handlers,   \* requests in flight between two store calls (concurrent runs)
    res,        \* the response sent last, with the request it answers
    deleted,    \* history: the _ids a DELETE has answered 200 for
    redeleted,  \* history: the _ids a DELETE has answered 200 for while inactive
    requests,   \* the ServiceRequest collection: _id -> stored document
    contacts    \* the Contact collection: _id -> stored document

vars == <<scooters, lastId, handlers, res, deleted, redeleted, requests, contacts>>

----------------------------------------------------------------------------
(* Bounds *)

MaxScooters == 2
MaxViews == 2
MaxHandlers == 2

----------------------------------------------------------------------------
(* Objects and strings *)

Has(o, f) == f \in DOMAIN o

Obj0 == <<>>

\* {...a, ...b}: b's properties win
Spread(a, b) == b @@ a

Space == " "

RECURSIVE trimStart(_)
trimStart(s) ==
    IF s # <<>> /\ Head(s) = Space THEN trimStart(Tail(s)) ELSE s

RECURSIVE trimEnd(_)
trimEnd(s) ==
    IF s # <<>> /\ s[Len(s)] = Space THEN trimEnd(SubSeq(s, 1, Len(s) - 1)) ELSE s

\* schema option trim: true
trim(s) == trimEnd(trimStart(s))

\* JavaScript truthiness of an optional string property
Truthy(o, f) == Has(o, f) /\ o[f] # <<>>

\* o.f for an optional string property, the empty string when there is none
\* (undefined and the empty string are both falsy and stored alike)
Field(o, f) == IF Has(o, f) THEN o[f] ELSE <<>>

\* a || b on strings
Or(a, b) == IF a # <<>> THEN a ELSE b

UpperCase ==
    <<"A", "B", "C", "D", "E", "F", "G", "H", "I", "J", "K", "L", "M",
      "N", "O", "P", "Q", "R", "S", "T", "U", "V", "W", "X", "Y", "Z">>
LowerCase ==
    <<"a", "b", "c", "d", "e", "f", "g", "h", "i", "j", "k", "l", "m",
      "n", "o", "p", "q", "r", "s", "t", "u", "v", "w", "x", "y", "z">>

UpperLetters == {UpperCase[i] : i \in 1..Len(UpperCase)}
LowerLetters == {LowerCase[i] : i \in 1..Len(LowerCase)}
LowerOf == [c \in UpperLetters |-> LowerCase[CHOOSE k \in 1..Len(UpperCase) : UpperCase[k] = c]]

\* schema option lowercase: true
toLowerCase(s) ==
    [i \in 1..Len(s) |-> IF s[i] \in UpperLetters THEN LowerOf[s[i]] ELSE s[i]]


Digits == <<"0", "1", "2", "3", "4", "5", "6", "7", "8", "9">>
IsDigit(c) == \E i \in 1..Len(Digits) : Digits[i] = c
DigitValue(c) == (CHOOSE i \in 1..Len(Digits) : Digits[i] = c) - 1

\* the class \w of a regular expression
WordChars ==
    UpperLetters \cup LowerLetters \cup {Digits[i] : i \in 1..Len(Digits)} \cup {"_"}
IsWordChar(c) == c \in WordChars

\* s[a..b] matches \w+([.-]?\w+)* : word characters, single dots or hyphens between
WordRun(s, a, b) ==
    /\ a <= b
    /\ IsWordChar(s[a]) /\ IsWordChar(s[b])
    /\ \A i \in a..(b - 1) :
          \/ IsWordChar(s[i])
          \/ s[i] \in {".", "-"} /\ IsWordChar(s[i + 1])

\* s[a..b] matches \w+([.-]?\w+)*(\.\w{2,3})+ : it ends in a dot and 2 or 3 word characters
DomainRun(s, a, b) ==
    \E k \in {2, 3} :
        /\ b - a + 1 >= k + 2
        /\ s[b - k] = "."
        /\ \A i \in (b - k + 1)..b : IsWordChar(s[i])
        /\ WordRun(s, a, b - k - 1)

\* the match option of the two email paths
matchesEmail(s) ==
    \E i \in 1..Len(s) :
        /\ s[i] = "@"
        /\ WordRun(s, 1, i - 1)
        /\ DomainRun(s, i + 1, Len(s))

\* s without leading white space and without one leading sign
Unsigned(s) ==
    LET t == trimStart(s)
    IN  IF t # <<>> /\ Head(t) \in {"-", "+"} THEN Tail(t) ELSE t

RECURSIVE leadingDigitsValue(_, _)
leadingDigitsValue(s, acc) ==
    IF s # <<>> /\ IsDigit(Head(s))
    THEN leadingDigitsValue(Tail(s), acc * 10 + DigitValue(Head(s)))
    ELSE acc

\* isNaN(parseInt(s)): no digit where the number should start
parseIntIsNaN(s) == Unsigned(s) = <<>> \/ ~IsDigit(Head(Unsigned(s)))

\* parseInt(s) for a string that starts with a number
parseInt(s) ==
    LET t == trimStart(s)
        n == leadingDigitsValue(Unsigned(s), 0)
    IN  IF t # <<>> /\ Head(t) = "-" THEN 0 - n ELSE n

RECURSIVE SortDescending(_)
SortDescending(S) ==
    IF S = {} THEN <<>>
    ELSE LET m == CHOOSE x \in S : \A y \in S : y <= x
         IN  <<m>> \o SortDescending(S \ {m})

\* a quotient rounded down
Floor(a, b) == a \div b

\* Math.ceil(a / b) for a >= 0 and b >= 1
Ceil(a, b) == (a + b - 1) \div b

----------------------------------------------------------------------------
(* models/Scooter.js: the schema *)

TypeEnum == {"Petrol", "Electric"}
ConditionEnum == {"Excellent", "Good", "Fair", "Poor"}
AvailabilityEnum == {"available", "sold", "reserved"}

TrimmedPaths == {"engineCapacity", "batteryCapacity"}
MinZeroPaths ==
    {"daysUsed", "mileage", "presentPrice", "pastPrice", "topSpeed", "reviewCount", "viewCount"}
RequiredPaths ==
    {"year", "daysUsed", "condition", "mileage", "presentPrice", "pastPrice", "type", "topSpeed"}
SchemaPaths ==
    {"year", "daysUsed", "condition", "mileage", "type", "engineCapacity", "batteryCapacity",
     "topSpeed", "presentPrice", "pastPrice", "seller", "contactInfo", "availability",
     "reviewCount", "viewCount", "isActive"}

\* the nested paths and the string paths under them that the model keeps
\* (the phone numbers are left out)
NestedPaths == {"seller", "contactInfo"}
SubPaths(p) == IF p = "seller" THEN {"name", "email"} ELSE {"email"}

\* new Date().getFullYear() when the schema is defined
CurrentYear == 2025
YearMin == 2000
YearMax == CurrentYear + 1

RequiredMessage(p) ==
    CASE p = "condition" -> "Condition is required"
      [] p = "year" -> "Year is required"
      [] p = "daysUsed" -> "Days used is required"
      [] p = "mileage" -> "Mileage is required"
      [] p = "topSpeed" -> "Top speed is required"
      [] p = "presentPrice" -> "Present price is required"
      [] p = "pastPrice" -> "Original price is required"
      [] p = "type" -> "Scooter type is required"

MinMessage(p) ==
    CASE p = "presentPrice" -> "Present price cannot be negative"
      [] p = "daysUsed" -> "Days used cannot be negative"
      [] p = "mileage" -> "Mileage cannot be negative"
      [] p = "topSpeed" -> "Top speed cannot be negative"
      [] p = "reviewCount" -> "Path reviewCount is less than minimum allowed value (0)"
      [] p = "pastPrice" -> "Original price cannot be negative"
      [] p = "viewCount" -> "Path viewCount is less than minimum allowed value (0)"

SchemaDefaults ==
    [availability |-> "available", reviewCount |-> 0, viewCount |-> 0, isActive |-> TRUE]

\* the setters of a path, run when a value is assigned or cast for an update
castPath(p, v) ==
    IF p \in TrimmedPaths THEN trim(v)
    ELSE IF p \in NestedPaths
    THEN [q \in DOMAIN v \cap SubPaths(p) |->
            IF q = "email" THEN toLowerCase(trim(v[q])) ELSE trim(v[q])]
    ELSE v

\* this.type !== t, for a this that may have no type
TypeIsNot(this, t) == ~Has(this, "type") \/ this["type"] # t

\* validate.validator of engineCapacity
engineCapacityValidator(this, v) ==
    TypeIsNot(this, "Petrol") \/ (v # <<>> /\ Len(v) > 0)

\* validate.validator of batteryCapacity
batteryCapacityValidator(this, v) ==
    TypeIsNot(this, "Electric") \/ (v # <<>> /\ Len(v) > 0)

\* the validators of seller.name, seller.email and contactInfo.email run on value v
SubPathErrors(p, q, v) ==
    IF v = <<>>
    THEN IF p # "seller" THEN {}
         ELSE IF q = "name" THEN {"Seller name is required"}
         ELSE {"Seller email is required"}
    ELSE IF q = "email" /\ ~matchesEmail(v) THEN {"Please enter a valid email"}
    ELSE {}

\* The validators of path p run on the value o[p], with this as given.
\* An undefined value fails only the required validator.
PathErrors(this, o, p) ==
    IF ~Has(o, p)
    THEN IF p \in RequiredPaths THEN {RequiredMessage(p)} ELSE {}
    ELSE CASE p \in MinZeroPaths ->
                IF o[p] < 0 THEN {MinMessage(p)} ELSE {}
           [] p = "type" ->
                IF o[p] \notin TypeEnum
                THEN {"Type must be either Petrol or Electric"} ELSE {}
           [] p = "year" ->
                IF o[p] < YearMin THEN {"Year must be 2000 or later"}
                ELSE IF o[p] > YearMax THEN {"Year cannot be in the future"} ELSE {}
           [] p = "condition" ->
                IF o[p] \notin ConditionEnum
                THEN {"Condition must be one of: Excellent, Good, Fair, Poor"} ELSE {}
           [] p = "availability" ->
                IF o[p] \notin AvailabilityEnum
                THEN {"Value is not a valid enum value for path availability"}
                ELSE {}
           [] p \in NestedPaths ->
                UNION {SubPathErrors(p, q, o[p][q]) : q \in DOMAIN o[p]}
           [] p = "engineCapacity" ->
                IF engineCapacityValidator(this, o[p])
                THEN {} ELSE {"Engine capacity is required for petrol scooters"}
           [] p = "batteryCapacity" ->
                IF batteryCapacityValidator(this, o[p])
                THEN {} ELSE {"Battery capacity is required for electric scooters"}
           [] OTHER -> {}

\* document.validate(): the required paths and the modified ones
ValidateDocument(doc, modified) ==
    UNION {PathErrors(doc, doc, p) : p \in RequiredPaths \cup modified}
        \cup UNION {SubPathErrors("seller", q, <<>>) :
                        q \in {r \in SubPaths("seller") : Field(Field(doc, "seller"), r) = <<>>}}

\* an update that runs no validator
ValidateUpdateNothing(update) == {}

\* update validators (runValidators: true): only the paths of the update, and
\* this is not the document, so it has no type
ValidateUpdate(update) ==
    UNION {PathErrors(Obj0, update, p) : p \in DOMAIN update}

\* a pre-save hook that lets every document through
preSaveSkipsCapacityCheck(doc) == ""

\* scooterSchema.pre(save): the error passed to next(), the empty string when none
preSave(doc) ==
    IF Has(doc, "type") /\ doc["type"] = "Petrol" /\ ~Truthy(doc, "engineCapacity")
    THEN "Engine capacity is required for petrol scooters"
    ELSE IF Has(doc, "type") /\ doc["type"] = "Electric" /\ ~Truthy(doc, "batteryCapacity")
    THEN "Battery capacity is required for electric scooters"
    ELSE ""

\* new Scooter(data): schema paths only, setters applied, defaults filled in
NewScooter(data) ==
    LET given == DOMAIN data \cap SchemaPaths
    IN  [p \in given \cup DOMAIN SchemaDefaults \cup NestedPaths |->
            IF p \in NestedPaths
            THEN [q \in SubPaths(p) |->
                    IF p \in given THEN Field(castPath(p, data[p]), q) ELSE <<>>]
            ELSE IF p \in given THEN castPath(p, data[p]) ELSE SchemaDefaults[p]]

\* the update document of findByIdAndUpdate after casting
CastUpdate(body) ==
    [p \in DOMAIN body \cap SchemaPaths |-> castPath(p, body[p])]

\* a pre-save hook that leaves contactInfo as it is
keepContactInfo(doc) == doc

\* scooterSchema.pre(save), its first statement: what the hook changes in the document
ensureContactEmail(doc) ==
    LET contactEmail == Field(Field(doc, "contactInfo"), "email")
        sellerEmail == Field(Field(doc, "seller"), "email")
    IN  IF contactEmail = <<>> /\ sellerEmail # <<>>
        THEN ("contactInfo" :> ("email" :> sellerEmail)) @@ doc
        ELSE doc

\* the paths of type Number
NumberPaths == MinZeroPaths \cup {"year"}

\* the $inc operator of an update document, empty when the body has none
IncOf(body) == IF Has(body, "$inc") THEN body["$inc"] ELSE Obj0

\* what the store does with $inc: it adds to the field, or sets a missing one
ApplyInc(doc, inc) ==
    [p \in DOMAIN doc \cup DOMAIN inc |->
        IF ~Has(inc, p) THEN doc[p]
        ELSE IF Has(doc, p) THEN doc[p] + inc[p] ELSE inc[p]]

\* document.save(): ValidationError, Error (thrown by a hook) or ok
SaveOutcome(doc, modified) ==
    IF ValidateDocument(doc, modified) # {} THEN "ValidationError"
    ELSE IF preSave(doc) # "" THEN "Error"
    ELSE "ok"

----------------------------------------------------------------------------
(* Identifiers: 0 stands for a string that is no ObjectId *)

MalformedId == 0

\* a cast that takes any string for an ObjectId
IsObjectIdAlways(id) == TRUE

IsObjectId(id) == id # MalformedId
Exists(id) == id \in DOMAIN scooters

\* Math.round(n / d) for d > 0: the nearest integer, a tie going up
MathRound(n, d) == (2 * n + d) \div (2 * d)

\* scooterSchema.virtual(discount): 0 unless both prices are truthy
discount(this) ==
    IF this["pastPrice"] # 0 /\ this["presentPrice"] # 0
    THEN MathRound((this["pastPrice"] - this["presentPrice"]) * 100, this["pastPrice"])
    ELSE 0

\* scooterSchema.virtual(priceDifference): 0 unless both prices are truthy
priceDifference(this) ==
    IF this["pastPrice"] # 0 /\ this["presentPrice"] # 0
    THEN this["pastPrice"] - this["presentPrice"]
    ELSE 0

\* toJSON: { virtuals: true }: a document in a response carries its virtuals
toJSON(doc) ==
    [discount |-> discount(doc), priceDifference |-> priceDifference(doc)] @@ doc

----------------------------------------------------------------------------
(* Responses *)

NoData == Obj0

Response(op, status, id, req, errors, data) ==
    [op |-> op, status |-> status, id |-> id, req |-> req, errors |-> errors, data |-> data]

\* a request handler: idle, between findById and save (found), or answered (done)
Idle == [pc |-> "idle", op |-> "", id |-> 0, doc |-> Obj0, status |-> 0]
Found(op, id, doc) == [pc |-> "found", op |-> op, id |-> id, doc |-> doc, status |-> 0]
Done(op, id, doc, status) == [pc |-> "done", op |-> op, id |-> id, doc |-> doc, status |-> status]

Init ==
    /\ scooters = Obj0
    /\ lastId = 0
    /\ handlers = [h \in 1..MaxHandlers |-> Idle]
    /\ res = Response("", 0, 0, NoData, {}, NoData)
    /\ deleted = {}
    /\ redeleted = {}
    /\ requests = <<>>
    /\ contacts = <<>>

----------------------------------------------------------------------------
(* routes/scooterRoutes.js *)

Anonymous == <<"A", "n", "o", "n", "y", "m", "o", "u", "s">>
NoReplyEmail ==
    <<"n", "o", "r", "e", "p", "l", "y", "@", "e", "x", "a", "m", "p", "l", "e", ".", "c", "o", "m">>

\* req.body.seller or req.body.contactInfo, an empty object when there is none
\* (the optional chaining ?. of the route)
Nested(body, p) == IF Has(body, p) THEN body[p] ELSE Obj0

\* const scooterData of router.post(/)
scooterData(body) ==
    LET seller == Nested(body, "seller")
        contactInfo == Nested(body, "contactInfo")
    IN  Spread(body,
           [seller |->
               [name |-> Or(Field(seller, "name"), Or(Field(body, "sellerName"), Anonymous)),
                email |-> Or(Field(seller, "email"), Or(Field(body, "sellerEmail"), NoReplyEmail))],
            contactInfo |->
               [email |-> Or(Field(contactInfo, "email"),
                             Or(Field(seller, "email"), Field(body, "sellerEmail")))]])

\* the answer of router.post(/) and what it stores, for the document built
\* from the body and the outcome of its save()
PostAnswer(body, max, scooter, outcome, savedScooter) ==
    /\ UNCHANGED <<handlers, deleted, redeleted, requests, contacts>>
    /\ IF outcome = "ValidationError"
       THEN /\ res' = Response("post", 400, 0, body,
                               ValidateDocument(scooter, DOMAIN scooter), NoData)
            /\ UNCHANGED <<scooters, lastId>>
       ELSE IF outcome = "Error"
       THEN /\ res' = Response("post", 500, 0, body, {}, NoData)
            /\ UNCHANGED <<scooters, lastId>>
       ELSE /\ lastId < max
            /\ scooters' = ((lastId + 1) :> savedScooter) @@ scooters
            /\ lastId' = lastId + 1
            /\ res' = Response("post", 201, lastId + 1, body, {}, toJSON(savedScooter))

\* await scooter.save() of router.post(/)
PostSave(body, max, scooter) ==
    PostAnswer(body, max, scooter, SaveOutcome(scooter, DOMAIN scooter),
               ensureContactEmail(scooter))

\* router.post(/), in a run that creates at most max listings
PostUpTo(body, max) == PostSave(body, max, NewScooter(scooterData(body)))

Post(body) == PostUpTo(body, MaxScooters)

\* what a method of the document changes in memory
incrementViewCount(doc) == [doc EXCEPT !["viewCount"] = @ + 1]
markAsSold(doc) == [doc EXCEPT !["availability"] = "sold"]

\* the paths whose value differs from the one loaded
ModifiedPaths(loaded, doc) ==
    {p \in DOMAIN doc : ~Has(loaded, p) \/ loaded[p] # doc[p]}

\* the $set a save or an update sends: only the given paths are written
SetPaths(stored, values, paths) ==
    [p \in DOMAIN stored \cup paths |-> IF p \in paths THEN values[p] ELSE stored[p]]

\* router.get(/:id)
GetById(id) ==
    /\ UNCHANGED <<lastId, handlers, deleted, redeleted, requests, contacts>>
    /\ IF ~IsObjectId(id)
       THEN /\ res' = Response("get", 400, id, NoData, {}, NoData)
            /\ UNCHANGED scooters
       ELSE IF ~Exists(id)
       THEN /\ res' = Response("get", 404, id, NoData, {}, NoData)
            /\ UNCHANGED scooters
       ELSE LET scooter == ensureContactEmail(incrementViewCount(scooters[id]))
                modified == ModifiedPaths(scooters[id], scooter)
            IN  /\ scooters[id]["viewCount"] < MaxViews
                /\ IF SaveOutcome(scooter, modified) = "ok"
                   THEN /\ scooters' = [scooters EXCEPT ![id] = SetPaths(@, scooter, modified)]
                        /\ res' = Response("get", 200, id, NoData, {}, toJSON(scooter))
                   ELSE /\ res' = Response("get", 500, id, NoData, {}, NoData)
                        /\ UNCHANGED scooters

\* the answer of router.put(/:id) for the cast update document, its $inc and
\* the errors of the update validators
PutAnswer(id, body, update, inc, errors) ==
    /\ UNCHANGED <<lastId, handlers, deleted, redeleted, requests, contacts>>
    /\ IF ~IsObjectId(id) \/ ~(DOMAIN inc \subseteq NumberPaths)
       THEN /\ res' = Response("put", 400, id, body, {}, NoData)
            /\ UNCHANGED scooters
       ELSE IF errors # {}
       THEN /\ res' = Response("put", 400, id, body, errors, NoData)
            /\ UNCHANGED scooters
       ELSE IF DOMAIN update \cap DOMAIN inc # {}
       THEN /\ res' = Response("put", 500, id, body, {}, NoData)
            /\ UNCHANGED scooters
       ELSE IF ~Exists(id)
       THEN /\ res' = Response("put", 404, id, body, {}, NoData)
            /\ UNCHANGED scooters
       ELSE /\ scooters' = [scooters EXCEPT
                                ![id] = ApplyInc(SetPaths(@, update, DOMAIN update), inc)]
            /\ res' = Response("put", 200, id, body, {}, toJSON(scooters'[id]))

\* router.put(/:id): the body is the update document; its plain properties are
\* the $set, which the update validators check, and its $inc is not validated
Put(id, body) ==
    PutAnswer(id, body, CastUpdate(body), IncOf(body), ValidateUpdate(CastUpdate(body)))

\* a DELETE that removes the document
DeleteRemovesDocument(id) ==
    /\ UNCHANGED <<lastId, handlers, requests, contacts>>
    /\ IF ~IsObjectId(id)
       THEN /\ res' = Response("delete", 400, id, NoData, {}, NoData)
            /\ UNCHANGED <<scooters, deleted, redeleted>>
       ELSE IF ~Exists(id)
       THEN /\ res' = Response("delete", 404, id, NoData, {}, NoData)
            /\ UNCHANGED <<scooters, deleted, redeleted>>
       ELSE /\ scooters' = [y \in DOMAIN scooters \ {id} |-> scooters[y]]
            /\ res' = Response("delete", 200, id, NoData, {}, toJSON(scooters[id]))
            /\ deleted' = deleted \cup {id}
            /\ redeleted' = IF scooters[id]["isActive"] THEN redeleted ELSE redeleted \cup {id}

\* a DELETE that looks for the listing among the active ones only
DeleteOnlyActive(id) ==
    /\ UNCHANGED <<lastId, handlers, requests, contacts>>
    /\ IF ~IsObjectId(id)
       THEN /\ res' = Response("delete", 400, id, NoData, {}, NoData)
            /\ UNCHANGED <<scooters, deleted, redeleted>>
       ELSE IF ~Exists(id) \/ ~scooters[id]["isActive"]
       THEN /\ res' = Response("delete", 404, id, NoData, {}, NoData)
            /\ UNCHANGED <<scooters, deleted, redeleted>>
       ELSE /\ scooters' = [scooters EXCEPT ![id] = SetPaths(@, [isActive |-> FALSE], {"isActive"})]
            /\ res' = Response("delete", 200, id, NoData, {}, toJSON(scooters'[id]))
            /\ deleted' = deleted \cup {id}
            /\ UNCHANGED redeleted

\* router.delete(/:id)
Delete(id) ==
    /\ UNCHANGED <<lastId, handlers, requests, contacts>>
    /\ IF ~IsObjectId(id)
       THEN /\ res' = Response("delete", 400, id, NoData, {}, NoData)
            /\ UNCHANGED <<scooters, deleted, redeleted>>
       ELSE IF ~Exists(id)
       THEN /\ res' = Response("delete", 404, id, NoData, {}, NoData)
            /\ UNCHANGED <<scooters, deleted, redeleted>>
       ELSE /\ scooters' = [scooters EXCEPT ![id] = SetPaths(@, [isActive |-> FALSE], {"isActive"})]
            /\ res' = Response("delete", 200, id, NoData, {}, toJSON(scooters'[id]))
            /\ deleted' = deleted \cup {id}
            /\ redeleted' = IF scooters[id]["isActive"] THEN redeleted ELSE redeleted \cup {id}

\* router.patch(/:id/sold)
PatchSold(id) ==
    /\ UNCHANGED <<lastId, handlers, deleted, redeleted, requests, contacts>>
    /\ IF ~IsObjectId(id)
       THEN /\ res' = Response("sold", 400, id, NoData, {}, NoData)
            /\ UNCHANGED scooters
       ELSE IF ~Exists(id)
       THEN /\ res' = Response("sold", 404, id, NoData, {}, NoData)
            /\ UNCHANGED scooters
       ELSE LET scooter == ensureContactEmail(markAsSold(scooters[id]))
                modified == ModifiedPaths(scooters[id], scooter)
            IN  IF SaveOutcome(scooter, modified) = "ok"
                THEN /\ scooters' = [scooters EXCEPT ![id] = SetPaths(@, scooter, modified)]
                     /\ res' = Response("sold", 200, id, NoData, {}, toJSON(scooter))
                ELSE /\ res' = Response("sold", 500, id, NoData, {}, NoData)
                     /\ UNCHANGED scooters

\* a match whose price bounds are exclusive
MatchesOpenInterval(doc, filter) ==
    /\ \A p \in DOMAIN filter \ {"$gte", "$lte"} : Has(doc, p) /\ doc[p] = filter[p]
    /\ Has(filter, "$gte") => doc["presentPrice"] > filter["$gte"]
    /\ Has(filter, "$lte") => doc["presentPrice"] < filter["$lte"]

\* does a stored document match a query filter
Matches(doc, filter) ==
    /\ \A p \in DOMAIN filter \ {"$gte", "$lte"} : Has(doc, p) /\ doc[p] = filter[p]
    /\ Has(filter, "$gte") => doc["presentPrice"] >= filter["$gte"]
    /\ Has(filter, "$lte") => doc["presentPrice"] <= filter["$lte"]

\* Model.find(filter).sort(-createdAt): createdAt grows with the _id
Find(filter) == SortDescending({id \in DOMAIN scooters : Matches(scooters[id], filter)})

\* Model.countDocuments(filter)
CountDocuments(filter) == Cardinality({id \in DOMAIN scooters : Matches(scooters[id], filter)})

\* a cursor that forgets the limit
SkipWithoutLimit(found, skip, limit) == SubSeq(found, skip + 1, Len(found))

\* a cursor that forgets the skip
SkipLimitFromStart(found, skip, limit) ==
    SubSeq(found, 1, IF limit < Len(found) THEN limit ELSE Len(found))

\* cursor.skip(skip).limit(limit); a limit of 0 is no limit
SkipLimit(found, skip, limit) ==
    SubSeq(found, skip + 1, IF limit = 0 THEN Len(found) ELSE IF skip + limit < Len(found) THEN skip + limit ELSE Len(found))

\* .lean(): the plain documents, each with its _id
Lean(ids) == [i \in 1..Len(ids) |-> ("_id" :> ids[i]) @@ scooters[ids[i]]]

DefaultPage == 1
DefaultLimit == 10

pageNumOf(query) == IF Has(query, "page") THEN parseInt(query["page"]) ELSE DefaultPage
\* a limit that is always the default one
limitNumOfAlwaysDefault(query) == DefaultLimit
limitNumOf(query) == IF Has(query, "limit") THEN parseInt(query["limit"]) ELSE DefaultLimit

\* skip = (pageNum - 1) * limitNum; the store refuses a negative skip and the
\* find rejects
skipOf(query) == (pageNumOf(query) - 1) * limitNumOf(query)
FindRejects(query) == skipOf(query) < 0

\* a findByType that forgets the availability
findByTypeAnyAvailability(type) == [type |-> type, isActive |-> TRUE]

\* scooterSchema.statics.findByType and findByPriceRange: the filter each passes to find
findByType(type) == [type |-> type, availability |-> "available", isActive |-> TRUE]
findByPriceRange(minPrice, maxPrice) ==
    ("$gte" :> minPrice) @@ ("$lte" :> maxPrice) @@ [availability |-> "available", isActive |-> TRUE]

\* the find query of a list request: one page of the matching listings
FindPage(findFilter, query) ==
    Lean(SkipLimit(Find(findFilter), skipOf(query), limitNumOf(query)))

\* the data of a list response for the page found: the count query, the
\* pagination block
PageData(found, totalCount, pageNum, limitNum) ==
    [scooters |-> found,
     pagination |->
        [currentPage |-> pageNum, totalPages |-> Ceil(totalCount, limitNum),
         totalCount |-> totalCount,
         hasNextPage |-> pageNum < Ceil(totalCount, limitNum), hasPrevPage |-> pageNum > 1]]

\* the data of a list response: the find query, the count query, the pagination block
Page(findFilter, countFilter, query) ==
    PageData(FindPage(findFilter, query), CountDocuments(countFilter),
             pageNumOf(query), limitNumOf(query))

\* a condition filter that takes any value
conditionFilterUnchecked(query) ==
    IF Has(query, "condition") /\ query["condition"] # ""
    THEN [condition |-> query["condition"]] ELSE Obj0

\* filter.condition: set for a condition of the enum only
conditionFilter(query) ==
    IF Has(query, "condition") /\ query["condition"] # "" /\ query["condition"] \in ConditionEnum
    THEN [condition |-> query["condition"]] ELSE Obj0

\* a filter that forgets isActive
BuildFilterWithoutIsActive(query) ==
    [availability |-> IF Has(query, "availability") THEN query["availability"] ELSE "available"]

\* the filter object router.get(/) builds from req.query
BuildFilter(query) ==
    LET base == [isActive |-> TRUE,
                 availability |-> IF Has(query, "availability")
                                  THEN query["availability"] ELSE "available"]
        type == IF Has(query, "type") /\ query["type"] # "" /\ query["type"] \in TypeEnum
                THEN [type |-> query["type"]] ELSE Obj0
        priced == Truthy(query, "minPrice") \/ Truthy(query, "maxPrice")
        gte == IF priced /\ Truthy(query, "minPrice")
               THEN "$gte" :> parseInt(query["minPrice"]) ELSE Obj0
        lte == IF priced /\ Truthy(query, "maxPrice")
               THEN "$lte" :> parseInt(query["maxPrice"]) ELSE Obj0
    IN  base @@ type @@ conditionFilter(query) @@ gte @@ lte

\* router.get(/)
GetAll(query) ==
    /\ UNCHANGED <<scooters, lastId, handlers, deleted, redeleted, requests, contacts>>
    /\ IF FindRejects(query)
       THEN res' = Response("list", 500, 0, query, {}, NoData)
       ELSE res' = Response("list", 200, 0, query, {},
                       Page(BuildFilter(query), BuildFilter(query), query))

\* a handler of router.get(/) between its find query and its count query; store
\* is the collection as the find query saw it, kept for the properties
Listed(query, found, store) ==
    [pc |-> "listed", op |-> "list", id |-> 0,
     doc |-> [query |-> query, scooters |-> found, store |-> store], status |-> 0]

\* router.get(/) up to await Scooter.find(filter)...lean(), and the answer when
\* the find rejects
FindScooters(h, query) ==
    /\ handlers[h].pc = "idle"
    /\ UNCHANGED <<scooters, lastId, deleted, redeleted, requests, contacts>>
    /\ IF FindRejects(query)
       THEN /\ handlers' = [handlers EXCEPT ![h] = Done("list", 0, Obj0, 500)]
            /\ res' = Response("list", 500, 0, query, {}, NoData)
       ELSE /\ handlers' = [handlers EXCEPT
                                ![h] = Listed(query, FindPage(BuildFilter(query), query), scooters)]
            /\ UNCHANGED res

\* router.get(/) from await Scooter.countDocuments(filter) to the answer; the
\* handler remembers whether the collection changed since its find query
CountScooters(h) ==
    /\ handlers[h].pc = "listed"
    /\ UNCHANGED <<scooters, lastId, deleted, redeleted, requests, contacts>>
    /\ handlers' = [handlers EXCEPT
                        ![h] = Done("list", 0, [changed |-> handlers[h].doc.store # scooters], 200)]
    /\ res' = Response("list", 200, 0, handlers[h].doc.query, {},
                       PageData(handlers[h].doc.scooters,
                                CountDocuments(BuildFilter(handlers[h].doc.query)),
                                pageNumOf(handlers[h].doc.query),
                                limitNumOf(handlers[h].doc.query)))

\* router.get(/type/:type)
GetByType(type, query) ==
    /\ UNCHANGED <<scooters, lastId, handlers, deleted, redeleted, requests, contacts>>
    /\ IF type \notin TypeEnum
       THEN res' = Response("type", 400, 0, [type |-> type] @@ query, {}, NoData)
       ELSE IF FindRejects(query)
       THEN res' = Response("type", 500, 0, [type |-> type] @@ query, {}, NoData)
       ELSE res' = Response("type", 200, 0, [type |-> type] @@ query, {},
                       Page(findByType(type),
                            [type |-> type, availability |-> "available", isActive |-> TRUE], query))

\* the number 0 as a quotient, and the $avg of the prices of a set of listings
Zero == [num |-> 0, den |-> 1]
RECURSIVE SumOfPrices(_)
SumOfPrices(ids) ==
    IF ids = {} THEN 0
    ELSE LET id == CHOOSE y \in ids : TRUE
         IN  scooters[id]["presentPrice"] + SumOfPrices(ids \ {id})

\* an aggregate over every stored listing, whatever the $match
AggregateWithoutMatch(match) ==
    LET ids == DOMAIN scooters
        prices == {scooters[id]["presentPrice"] : id \in ids}
    IN  IF ids = {} THEN <<>>
        ELSE <<[avgPrice |-> [num |-> SumOfPrices(ids), den |-> Cardinality(ids)],
                minPrice |-> CHOOSE m \in prices : \A q \in prices : m <= q,
                maxPrice |-> CHOOSE m \in prices : \A q \in prices : m >= q]>>

\* Scooter.aggregate([{$match}, {$group: {_id: null, $avg, $min, $max}}]): one
\* group when a document matches, none otherwise
Aggregate(match) ==
    LET ids == {id \in DOMAIN scooters : Matches(scooters[id], match)}
        prices == {scooters[id]["presentPrice"] : id \in ids}
    IN  IF ids = {} THEN <<>>
        ELSE <<[avgPrice |-> [num |-> SumOfPrices(ids), den |-> Cardinality(ids)],
                minPrice |-> CHOOSE m \in prices : \A q \in prices : m <= q,
                maxPrice |-> CHOOSE m \in prices : \A q \in prices : m >= q]>>

\* statistics that count the inactive listings too
StatsDataOfAll ==
    LET priceStats == Aggregate([availability |-> "available"])
    IN  [total |-> CountDocuments(Obj0),
         available |-> CountDocuments([availability |-> "available"]),
         sold |-> CountDocuments([availability |-> "sold"]),
         petrol |-> CountDocuments([type |-> "Petrol"]),
         electric |-> CountDocuments([type |-> "Electric"]),
         priceStats |-> IF priceStats # <<>> THEN priceStats[1]
                        ELSE [avgPrice |-> Zero, minPrice |-> 0, maxPrice |-> 0]]

\* the data of the statistics response
StatsData ==
    LET priceStats == Aggregate([isActive |-> TRUE, availability |-> "available"])
    IN  [total |-> CountDocuments([isActive |-> TRUE]),
         available |-> CountDocuments([availability |-> "available", isActive |-> TRUE]),
         sold |-> CountDocuments([availability |-> "sold", isActive |-> TRUE]),
         petrol |-> CountDocuments([type |-> "Petrol", isActive |-> TRUE]),
         electric |-> CountDocuments([type |-> "Electric", isActive |-> TRUE]),
         priceStats |-> IF priceStats # <<>> THEN priceStats[1]
                        ELSE [avgPrice |-> Zero, minPrice |-> 0, maxPrice |-> 0]]

\* router.get(/stats/overview)
GetStats ==
    /\ UNCHANGED <<scooters, lastId, handlers, deleted, redeleted, requests, contacts>>
    /\ res' = Response("stats", 200, 0, NoData, {}, StatsData)

\* the count queries of router.get(/stats/overview) in the order it awaits them
StatsCounts == <<"total", "available", "sold", "petrol", "electric">>

\* a filter for the sold count that forgets the availability
StatsFilterSoldAny(count) == [isActive |-> TRUE]

\* the filter of each count query
StatsFilter(count) ==
    CASE count = "total" -> [isActive |-> TRUE]
      [] count = "available" -> [availability |-> "available", isActive |-> TRUE]
      [] count = "sold" -> [availability |-> "sold", isActive |-> TRUE]
      [] count = "petrol" -> [type |-> "Petrol", isActive |-> TRUE]
      [] count = "electric" -> [type |-> "Electric", isActive |-> TRUE]

\* a handler of router.get(/stats/overview) between two of its queries: the
\* counts it has; store is the collection as the first query saw it (as long as
\* every query saw that one) and changed tells whether a later query saw
\* another one, both kept for the properties
Counting(counts, store, changed) ==
    [pc |-> "counting", op |-> "stats", id |-> 0,
     doc |-> [counts |-> counts, store |-> store, changed |-> changed], status |-> 0]

\* router.get(/stats/overview) up to its first count query
StartStats(h) ==
    /\ handlers[h].pc = "idle"
    /\ UNCHANGED <<scooters, lastId, res, deleted, redeleted, requests, contacts>>
    /\ handlers' = [handlers EXCEPT
                        ![h] = Counting((StatsCounts[1] :> CountDocuments(StatsFilter(StatsCounts[1]))),
                                        scooters, FALSE)]

\* the priceStats of the statistics response
PriceStats(priceStats) ==
    IF priceStats # <<>> THEN priceStats[1]
    ELSE [avgPrice |-> Zero, minPrice |-> 0, maxPrice |-> 0]

\* the next query of router.get(/stats/overview): one more count, or the
\* aggregate and the answer
ContinueStats(h, counts, changed) ==
    /\ handlers[h].pc = "counting"
    /\ UNCHANGED <<scooters, lastId, deleted, redeleted, requests, contacts>>
    /\ IF Cardinality(DOMAIN counts) < Len(StatsCounts)
       THEN /\ handlers' = [handlers EXCEPT
                  ![h] = Counting(
                            (StatsCounts[Cardinality(DOMAIN counts) + 1] :>
                                CountDocuments(StatsFilter(StatsCounts[Cardinality(DOMAIN counts) + 1])))
                            @@ counts,
                            IF changed THEN Obj0 ELSE handlers[h].doc.store, changed)]
            /\ UNCHANGED res
       ELSE /\ handlers' = [handlers EXCEPT ![h] = Done("stats", 0, [changed |-> changed], 200)]
            /\ res' = Response("stats", 200, 0, NoData, {},
                          counts @@ [priceStats |->
                              PriceStats(Aggregate([isActive |-> TRUE, availability |-> "available"]))])

NextStatsQuery(h) ==
    ContinueStats(h, handlers[h].doc.counts,
                  handlers[h].doc.changed \/ handlers[h].doc.store # scooters)

\* router.get(/price-range/:minPrice/:maxPrice)
GetByPriceRange(minPrice, maxPrice, query) ==
    LET req == [minPrice |-> minPrice, maxPrice |-> maxPrice] @@ query
    IN  /\ UNCHANGED <<scooters, lastId, handlers, deleted, redeleted, requests, contacts>>
        /\ IF \/ parseIntIsNaN(minPrice) \/ parseIntIsNaN(maxPrice)
              \/ parseInt(minPrice) < 0 \/ parseInt(maxPrice) < 0
              \/ parseInt(minPrice) > parseInt(maxPrice)
           THEN res' = Response("price-range", 400, 0, req, {}, NoData)
           ELSE IF FindRejects(query)
           THEN res' = Response("price-range", 500, 0, req, {}, NoData)
           ELSE res' = Response("price-range", 200, 0, req, {},
                           Page(findByPriceRange(parseInt(minPrice), parseInt(maxPrice)),
                                ("$gte" :> parseInt(minPrice)) @@ ("$lte" :> parseInt(maxPrice))
                                @@ [availability |-> "available", isActive |-> TRUE], query))

----------------------------------------------------------------------------
(* models/ServiceRequest.js and the service request routes of
   routes/serviceRoutes.js. Modelled paths: user, serviceType, contactInfo
   (name, phone, email), status, estimatedCost; strings have no setters here
   and are kept whole. Not modelled: vehicleDetails, serviceDetails, the other
   costs, notes and the two dates. *)

ServiceTypeEnum == {"insurance", "loan", "service", "roadside-assistance", "warranty"}
RequestStatusEnum == {"pending", "in-progress", "completed", "cancelled"}
RequestPaths == {"user", "serviceType", "contactInfo", "status", "estimatedCost"}
RequestRequiredPaths == {"user", "serviceType", "contactInfo"}
RequestContactPaths == {"name", "phone", "email"}
RequestDefaults == [status |-> "pending", estimatedCost |-> 0]

\* getMockUser()._id
MockUserId == "64f1b2c3d4e5f6789abcdef0"

\* does the value o[p] fail a validator of path p (required, enum)
RequestPathFails(o, p) ==
    CASE p = "serviceType" -> o[p] \notin ServiceTypeEnum
      [] p = "status" -> o[p] \notin RequestStatusEnum
      [] p = "user" -> o[p] = ""
      [] p = "contactInfo" -> \E q \in DOMAIN o[p] \cap RequestContactPaths : o[p][q] = ""
      [] OTHER -> FALSE

\* document.validate() fails: a required path is missing or a path fails
RequestDocumentFails(doc) ==
    \/ \E p \in RequestRequiredPaths : ~Has(doc, p)
    \/ Has(doc, "contactInfo") /\ ~(RequestContactPaths \subseteq DOMAIN doc["contactInfo"])
    \/ \E p \in DOMAIN doc : RequestPathFails(doc, p)

\* update validators fail: a path of the update fails
RequestUpdateFails(update) == \E p \in DOMAIN update : RequestPathFails(update, p)

\* new ServiceRequest(data)
NewServiceRequest(data) ==
    [p \in (DOMAIN data \cap RequestPaths) \cup DOMAIN RequestDefaults |->
        IF Has(data, p) THEN data[p] ELSE RequestDefaults[p]]

\* a handler of PUT or DELETE /request/:id that has found the request pending
\* and not yet written; doc is the request body (PUT) or the document loaded
\* (DELETE)
Checked(op, id, doc) == [pc |-> "checked", op |-> op, id |-> id, doc |-> doc, status |-> 0]

\* the answer of router.post(/request) for the document built from the body
PostRequestAnswer(body, max, serviceRequest) ==
    /\ UNCHANGED <<scooters, lastId, handlers, deleted, redeleted, contacts>>
    /\ IF RequestDocumentFails(serviceRequest)
       THEN /\ res' = Response("request-post", 400, 0, body, {}, NoData)
            /\ UNCHANGED requests
       ELSE /\ Len(requests) < max
            /\ requests' = Append(requests, serviceRequest)
            /\ res' = Response("request-post", 201, Len(requests) + 1, body, {}, serviceRequest)

\* router.post(/request), in a run that creates at most max requests
PostRequest(body, max) ==
    PostRequestAnswer(body, max, NewServiceRequest(Spread(body, [user |-> MockUserId])))

\* the status a handler answers with when findById throws (a malformed id):
\* the catch of PUT answers 400, the catch of DELETE 500
RequestCatchStatus(op) == IF op = "request-put" THEN 400 ELSE 500

\* request.status !== pending is what refuses the call
RequestIsPending(request) == request["status"] = "pending"

\* router.put(/request/:id) and router.delete(/request/:id) up to the status
\* check: findById, the 404, the 403 and the 400 of a request not pending
FindRequest(h, op, id, body) ==
    /\ handlers[h].pc \in {"idle", "done"}
    /\ UNCHANGED <<scooters, lastId, deleted, redeleted, requests, contacts>>
    /\ IF ~IsObjectId(id)
       THEN /\ handlers' = [handlers EXCEPT ![h] = Done(op, id, Obj0, RequestCatchStatus(op))]
            /\ res' = Response(op, RequestCatchStatus(op), id, body, {}, NoData)
       ELSE IF id \notin DOMAIN requests
       THEN /\ handlers' = [handlers EXCEPT ![h] = Done(op, id, Obj0, 404)]
            /\ res' = Response(op, 404, id, body, {}, NoData)
       ELSE IF requests[id]["user"] # MockUserId
       THEN /\ handlers' = [handlers EXCEPT ![h] = Done(op, id, Obj0, 403)]
            /\ res' = Response(op, 403, id, body, {}, NoData)
       ELSE IF ~RequestIsPending(requests[id])
       THEN /\ handlers' = [handlers EXCEPT ![h] = Done(op, id, Obj0, 400)]
            /\ res' = Response(op, 400, id, body, {}, NoData)
       ELSE /\ handlers' = [handlers EXCEPT
                                ![h] = Checked(op, id, IF op = "request-put" THEN body
                                                      ELSE requests[id])]
            /\ UNCHANGED res

\* router.put(/request/:id) from findByIdAndUpdate to the answer
UpdateRequest(h, id, body, update) ==
    /\ handlers[h].pc = "checked" /\ handlers[h].op = "request-put"
    /\ UNCHANGED <<scooters, lastId, deleted, redeleted, contacts>>
    /\ IF RequestUpdateFails(update)
       THEN /\ handlers' = [handlers EXCEPT ![h] = Done("request-put", id, Obj0, 400)]
            /\ res' = Response("request-put", 400, id, body, {}, NoData)
            /\ UNCHANGED requests
       ELSE /\ handlers' = [handlers EXCEPT ![h] = Done("request-put", id, Obj0, 200)]
            /\ requests' = [requests EXCEPT ![id] = SetPaths(@, update, DOMAIN update)]
            /\ res' = Response("request-put", 200, id, body, {}, requests'[id])

PutRequestUpdate(h) ==
    UpdateRequest(h, handlers[h].id, handlers[h].doc,
                  [p \in DOMAIN handlers[h].doc \cap RequestPaths |-> handlers[h].doc[p]])

\* router.delete(/request/:id) from request.status = cancelled to the answer:
\* save() validates the document loaded and writes the modified path
CancelRequest(h, id, request) ==
    /\ handlers[h].pc = "checked" /\ handlers[h].op = "request-delete"
    /\ UNCHANGED <<scooters, lastId, deleted, redeleted, contacts>>
    /\ IF RequestDocumentFails(request)
       THEN /\ handlers' = [handlers EXCEPT ![h] = Done("request-delete", id, Obj0, 500)]
            /\ res' = Response("request-delete", 500, id, NoData, {}, NoData)
            /\ UNCHANGED requests
       ELSE /\ handlers' = [handlers EXCEPT ![h] = Done("request-delete", id, Obj0, 200)]
            /\ requests' = [requests EXCEPT ![id] = SetPaths(@, request, {"status"})]
            /\ res' = Response("request-delete", 200, id, NoData, {}, NoData)

DeleteRequestSave(h) ==
    CancelRequest(h, handlers[h].id, [handlers[h].doc EXCEPT !["status"] = "cancelled"])

----------------------------------------------------------------------------
(* The Contact model (contactSchema, in models/ServiceRequest.js) and the
   contact routes of routes/serviceRoutes.js. Modelled paths: name, email,
   subject, message, category, priority, status, responseMessage, respondedBy,
   respondedAt, tags. Not modelled: phone, source, ipAddress, userAgent,
   internalNotes, the maxlength validators, the timestamps and
   DELETE /:id. *)

ContactCategoryEnum == {"general", "support", "sales", "feedback", "complaint", "partnership"}
ContactPriorityEnum == {"low", "medium", "high", "urgent"}
ContactStatusEnum == {"new", "in-progress", "resolved", "closed"}

ContactTrimmedPaths == {"name", "email", "subject", "message", "responseMessage", "respondedBy"}
ContactRequiredPaths == {"name", "email", "subject", "message"}
ContactPaths ==
    ContactTrimmedPaths \cup {"category", "priority", "status", "respondedAt", "tags"}
ContactDefaults == [category |-> "general", priority |-> "medium", status |-> "new", tags |-> <<>>]

\* minlength of a path, 0 when it has none
ContactMinLength(p) ==
    CASE p = "name" -> 2
      [] p = "subject" -> 5
      [] p = "message" -> 10
      [] OTHER -> 0

\* the setters of one tag: trim and lowercase
castTag(tag) == toLowerCase(trim(tag))

\* the setters of a path of contactSchema
castContactPath(p, v) ==
    IF p = "email" THEN toLowerCase(trim(v))
    ELSE IF p \in ContactTrimmedPaths THEN trim(v)
    ELSE IF p = "tags" THEN [i \in 1..Len(v) |-> castTag(v[i])]
    ELSE v

\* the validators of path p run on the value o[p]
ContactPathErrors(o, p) ==
    CASE ~Has(o, p) -> IF p \in ContactRequiredPaths THEN {<<p, "required">>} ELSE {}
      [] p \in ContactRequiredPaths /\ o[p] = <<>> -> {<<p, "required">>}
      [] p \in {"name", "subject", "message"} ->
            IF Len(o[p]) < ContactMinLength(p) THEN {<<p, "minlength">>} ELSE {}
      [] p = "email" -> IF matchesEmail(o[p]) THEN {} ELSE {<<p, "match">>}
      [] p = "category" -> IF o[p] \in ContactCategoryEnum THEN {} ELSE {<<p, "enum">>}
      [] p = "priority" -> IF o[p] \in ContactPriorityEnum THEN {} ELSE {<<p, "enum">>}
      [] p = "status" -> IF o[p] \in ContactStatusEnum THEN {} ELSE {<<p, "enum">>}
      [] OTHER -> {}

\* document.validate(): the required paths and the modified ones
ValidateContact(doc, modified) ==
    UNION {ContactPathErrors(doc, p) : p \in ContactRequiredPaths \cup modified}

\* update validators: only the paths of the update
ValidateContactUpdate(update) ==
    UNION {ContactPathErrors(update, p) : p \in DOMAIN update}

\* new Contact(data)
NewContact(data) ==
    [p \in (DOMAIN data \cap ContactPaths) \cup DOMAIN ContactDefaults |->
        IF Has(data, p) THEN castContactPath(p, data[p]) ELSE ContactDefaults[p]]

\* the virtual isResolved
isResolved(this) == this["status"] \in {"resolved", "closed"}

\* contactSchema.pre(save): what the hook changes in the document; now is the
\* value of new Date()
contactPreSave(this, isNew, statusModified, now) ==
    LET priority ==
            IF isNew /\ this["category"] \in {"complaint", "support"} THEN [priority |-> "high"]
            ELSE IF isNew /\ this["category"] \in {"sales", "partnership"}
            THEN [priority |-> "medium"]
            ELSE Obj0
        respondedAt ==
            IF statusModified /\ isResolved(this) /\ ~Has(this, "respondedAt")
            THEN [respondedAt |-> now]
            ELSE Obj0
    IN  respondedAt @@ priority @@ this

\* the answer of router.post(/) of the contacts for the document built
PostContactAnswer(body, max, contact, errors, saved) ==
    /\ UNCHANGED <<scooters, lastId, handlers, deleted, redeleted, requests>>
    /\ IF errors # {}
       THEN /\ res' = Response("contact-post", 400, 0, body, errors, NoData)
            /\ UNCHANGED contacts
       ELSE /\ Len(contacts) < max
            /\ contacts' = Append(contacts, saved)
            /\ res' = Response("contact-post", 201, Len(contacts) + 1, body, {}, saved)

PostContactSave(body, max, contact, now) ==
    PostContactAnswer(body, max, contact, ValidateContact(contact, DOMAIN contact),
                      contactPreSave(contact, TRUE, Has(body, "status"), now))

\* router.post(/) of the contacts, in a run that creates at most max contacts
PostContact(body, now, max) == PostContactSave(body, max, NewContact(body), now)

\* the answer of router.put(/:id) of the contacts
PutContactAnswer(id, body, update, errors) ==
    /\ UNCHANGED <<scooters, lastId, handlers, deleted, redeleted, requests>>
    /\ IF ~IsObjectId(id)
       THEN /\ res' = Response("contact-put", 400, id, body, {}, NoData)
            /\ UNCHANGED contacts
       ELSE IF errors # {}
       THEN /\ res' = Response("contact-put", 400, id, body, errors, NoData)
            /\ UNCHANGED contacts
       ELSE IF id \notin DOMAIN contacts
       THEN /\ res' = Response("contact-put", 404, id, body, {}, NoData)
            /\ UNCHANGED contacts
       ELSE /\ contacts' = [contacts EXCEPT ![id] = SetPaths(@, update, DOMAIN update)]
            /\ res' = Response("contact-put", 200, id, body, {}, contacts'[id])

\* the update document of findByIdAndUpdate after casting
CastContactUpdate(body) ==
    [p \in DOMAIN body \cap ContactPaths |-> castContactPath(p, body[p])]

\* router.put(/:id) of the contacts: findByIdAndUpdate, no save and no hook
PutContact(id, body) ==
    PutContactAnswer(id, body, CastContactUpdate(body), ValidateContactUpdate(CastContactUpdate(body)))

\* what router.patch(/:id/status) assigns to the document loaded
AssignStatus(contact, body) ==
    LET given == {p \in {"responseMessage", "respondedBy"} : Truthy(body, p)} \cup {"status"}
    IN  [p \in DOMAIN contact \cup given |->
            IF p \in given THEN castContactPath(p, body[p]) ELSE contact[p]]

\* the answer of router.patch(/:id/status) for the document assigned to
PatchStatusAnswer(id, body, contact, modified, now) ==
    /\ UNCHANGED <<scooters, lastId, handlers, deleted, redeleted, requests>>
    /\ IF ValidateContact(contact, modified) # {}
       THEN /\ res' = Response("contact-status", 500, id, body, {}, NoData)
            /\ UNCHANGED contacts
       ELSE /\ contacts' = [contacts EXCEPT
                                ![id] = contactPreSave(contact, FALSE, "status" \in modified, now)]
            /\ res' = Response("contact-status", 200, id, body, {}, contacts'[id])

\* router.patch(/:id/status)
PatchContactStatus(id, body, now) ==
    IF ~Has(body, "status") \/ body["status"] = "" \/ ~IsObjectId(id)
    THEN /\ res' = Response("contact-status", 400, id, body, {}, NoData)
         /\ UNCHANGED <<scooters, lastId, handlers, deleted, redeleted, requests, contacts>>
    ELSE IF id \notin DOMAIN contacts
    THEN /\ res' = Response("contact-status", 404, id, body, {}, NoData)
         /\ UNCHANGED <<scooters, lastId, handlers, deleted, redeleted, requests, contacts>>
    ELSE PatchStatusAnswer(id, body, AssignStatus(contacts[id], body),
                           ModifiedPaths(contacts[id], AssignStatus(contacts[id], body)), now)

\* Array.prototype.includes on the tag list
Includes(tags, tag) == \E i \in 1..Len(tags) : tags[i] = tag

\* contactSchema.methods.addTag: the document after it; push casts the new
\* element with the setters of the array
addTag(this, tag) ==
    IF ~Includes(this["tags"], toLowerCase(tag))
    THEN [this EXCEPT !["tags"] = Append(@, castTag(toLowerCase(tag)))]
    ELSE this

\* contactSchema.methods.removeTag: the document after it. The save() of both
\* methods changes nothing else: the document is not new and its status is
\* not modified.
removeTag(this, tag) ==
    [this EXCEPT !["tags"] = SelectSeq(@, LAMBDA t : t # toLowerCase(tag))]

\* router.patch(/:id/tags)
PatchContactTags(id, body) ==
    /\ UNCHANGED <<scooters, lastId, handlers, deleted, redeleted, requests>>
    /\ IF ~Has(body, "action") \/ body["action"] = "" \/ ~Truthy(body, "tag") \/ ~IsObjectId(id)
       THEN /\ res' = Response("contact-tags", 400, id, body, {}, NoData)
            /\ UNCHANGED contacts
       ELSE IF id \notin DOMAIN contacts
       THEN /\ res' = Response("contact-tags", 404, id, body, {}, NoData)
            /\ UNCHANGED contacts
       ELSE IF body["action"] = "add"
       THEN /\ contacts' = [contacts EXCEPT ![id] = addTag(@, body["tag"])]
            /\ res' = Response("contact-tags", 200, id, body, {}, contacts'[id])
       ELSE IF body["action"] = "remove"
       THEN /\ contacts' = [contacts EXCEPT ![id] = removeTag(@, body["tag"])]
            /\ res' = Response("contact-tags", 200, id, body, {}, contacts'[id])
       ELSE /\ res' = Response("contact-tags", 400, id, body, {}, NoData)
            /\ UNCHANGED contacts

----------------------------------------------------------------------------
(* Requests of the sequential runs *)

\* a body that passes every validator, and bodies that differ from it in one place
PetrolBody ==
    [year |-> 2022, daysUsed |-> 730, condition |-> "Good", mileage |-> 45, topSpeed |-> 83,
     type |-> "Petrol", engineCapacity |-> <<"a", Space>>, presentPrice |-> 1, pastPrice |-> 2]
ElectricBody ==
    [year |-> 2023, daysUsed |-> 365, condition |-> "Good", mileage |-> 120, topSpeed |-> 110,
     type |-> "Electric", batteryCapacity |-> <<"a">>, presentPrice |-> 1, pastPrice |-> 2]

Without(o, f) == [p \in DOMAIN o \ {f} |-> o[p]]

PostBodies ==
    {PetrolBody, ElectricBody,
     Without(PetrolBody, "engineCapacity"), Without(ElectricBody, "batteryCapacity"),
     Spread(PetrolBody, [engineCapacity |-> <<>>]),
     Spread(PetrolBody, [engineCapacity |-> <<Space>>]),
     Spread(ElectricBody, [batteryCapacity |-> <<Space>>]),
     Spread(ElectricBody, [engineCapacity |-> <<>>]),
     Spread(PetrolBody, [presentPrice |-> -1]),
     Spread(PetrolBody, [type |-> "Diesel"])}

PutBodies ==
    {[type |-> "Electric"], [engineCapacity |-> <<Space>>], [presentPrice |-> -1]}

Ids == 1..MaxScooters

Next ==
    \/ \E body \in PostBodies : Post(body)
    \/ \E id \in Ids : GetById(id)
    \/ \E id \in Ids, body \in PutBodies : Put(id, body)
    \/ \E id \in Ids : Delete(id)
    \/ \E id \in Ids : PatchSold(id)

Spec == Init /\ [][Next]_vars

----------------------------------------------------------------------------
(* Requests of the browsing runs *)

BrowsePostBodies ==
    {PetrolBody, Spread(ElectricBody, [presentPrice |-> 2]),
     Spread(PetrolBody, [availability |-> "sold"])}

BrowsePutBodies == {[isActive |-> TRUE], [availability |-> "reserved"]}

Queries ==
    {Obj0, [availability |-> "sold"], [availability |-> "reserved"],
     [type |-> "Electric"], [minPrice |-> <<"2">>], [limit |-> <<"1">>, page |-> <<"2">>]}

TypeParams == {"Petrol", "Electric", "Diesel"}

PriceRanges ==
    {<<<<"1">>, <<"2">>>>, <<<<"2">>, <<"2">>>>, <<<<"2">>, <<"1">>>>,
     <<<<"-", "1">>, <<"2">>>>, <<<<"a">>, <<"2">>>>, <<<<"0">>, <<"1", "0">>>>}

NextBrowse ==
    \/ \E body \in BrowsePostBodies : Post(body)
    \/ \E id \in Ids : GetById(id)
    \/ \E id \in Ids, body \in BrowsePutBodies : Put(id, body)
    \/ \E id \in Ids : Delete(id)
    \/ \E id \in Ids : PatchSold(id)
    \/ \E query \in Queries : GetAll(query)
    \/ \E type \in TypeParams : GetByType(type, Obj0)
    \/ \E range \in PriceRanges : GetByPriceRange(range[1], range[2], Obj0)

SpecBrowse == Init /\ [][NextBrowse]_vars

----------------------------------------------------------------------------
(* Concurrent requests: router.get(/:id) and router.patch(/:id/sold) make two
   store calls, findById and save, and other requests run between them *)

\* await Scooter.findById(req.params.id), and the answer when nothing is found
FindById(h, op, id) ==
    /\ handlers[h].pc = "idle"
    /\ UNCHANGED <<scooters, lastId, deleted, redeleted, requests, contacts>>
    /\ IF ~IsObjectId(id)
       THEN /\ handlers' = [handlers EXCEPT ![h] = Done(op, id, Obj0, 400)]
            /\ res' = Response(op, 400, id, NoData, {}, NoData)
       ELSE IF ~Exists(id)
       THEN /\ handlers' = [handlers EXCEPT ![h] = Done(op, id, Obj0, 404)]
            /\ res' = Response(op, 404, id, NoData, {}, NoData)
       ELSE /\ handlers' = [handlers EXCEPT ![h] = Found(op, id, scooters[id])]
            /\ UNCHANGED res

\* await scooter.incrementViewCount() or scooter.markAsSold(), and the answer
Save(h) ==
    LET op == handlers[h].op
        id == handlers[h].id
        loaded == handlers[h].doc
        scooter == ensureContactEmail(
                       IF op = "get" THEN incrementViewCount(loaded) ELSE markAsSold(loaded))
        modified == ModifiedPaths(loaded, scooter)
    IN  /\ handlers[h].pc = "found"
        /\ UNCHANGED <<lastId, deleted, redeleted, requests, contacts>>
        /\ IF SaveOutcome(scooter, modified) = "ok"
           THEN /\ scooters' = [scooters EXCEPT ![id] = SetPaths(@, scooter, modified)]
                /\ handlers' = [handlers EXCEPT ![h] = Done(op, id, scooter, 200)]
                /\ res' = Response(op, 200, id, NoData, {}, toJSON(scooter))
           ELSE /\ UNCHANGED scooters
                /\ handlers' = [handlers EXCEPT ![h] = Done(op, id, loaded, 500)]
                /\ res' = Response(op, 500, id, NoData, {}, NoData)

ConcurrentPostBodies == {PetrolBody}
ConcurrentPutBodies == {[type |-> "Electric"]}

NextConcurrent ==
    \/ \E body \in ConcurrentPostBodies : Post(body)
    \/ \E id \in Ids, body \in ConcurrentPutBodies : Put(id, body)
    \/ \E h \in 1..MaxHandlers, op \in {"get", "sold"}, id \in Ids : FindById(h, op, id)
    \/ \E h \in 1..MaxHandlers : Save(h)

SpecConcurrent == Init /\ [][NextConcurrent]_vars

----------------------------------------------------------------------------
(* Requests of the priced runs: listings over a grid of prices, zero included,
   and the listing of the API test script *)

MaxPrice == 3

TestBike ==
    [year |-> 2023, daysUsed |-> 365, condition |-> "Good", mileage |-> 35, topSpeed |-> 120,
     type |-> "Petrol", engineCapacity |-> <<"1", "5", "0", "c", "c">>,
     presentPrice |-> 150000, pastPrice |-> 200000]

PricedPostBodies ==
    {Spread(PetrolBody, [presentPrice |-> a, pastPrice |-> b]) : a, b \in 0..MaxPrice}
        \cup {TestBike}

PricedPutBodies == {[presentPrice |-> a] : a \in {0, MaxPrice}}

NextPriced ==
    \/ \E body \in PricedPostBodies : Post(body)
    \/ \E id \in Ids : GetById(id)
    \/ \E id \in Ids, body \in PricedPutBodies : Put(id, body)

SpecPriced == Init /\ [][NextPriced]_vars

----------------------------------------------------------------------------
(* Requests of the paged runs: a store that some creates have filled, then
   deletes, sales and list requests with page and limit *)

MaxListed == 3
MaxPage == 3
MaxLimit == 3

\* a number as it is written in a URL
Numeral(n) == <<Digits[n + 1]>>

\* the i-th listing created: the types alternate, the prices grow from 0
ListedBody(i) ==
    Spread(IF i % 2 = 1 THEN PetrolBody ELSE ElectricBody,
           [presentPrice |-> i - 1, pastPrice |-> MaxListed,
            condition |-> IF i % 3 = 0 THEN "Fair" ELSE "Good"])

InitListed ==
    /\ \E n \in 0..MaxListed :
          /\ scooters = [i \in 1..n |->
                            ensureContactEmail(NewScooter(scooterData(ListedBody(i))))]
          /\ lastId = n
    /\ handlers = [h \in 1..MaxHandlers |-> Idle]
    /\ res = Response("", 0, 0, NoData, {}, NoData)
    /\ deleted = {}
    /\ redeleted = {}
    /\ requests = <<>>
    /\ contacts = <<>>

ListedIds == 1..MaxListed

PagedQueries ==
    {Obj0}
        \cup {[page |-> Numeral(p)] : p \in 1..MaxPage}
        \cup {[limit |-> Numeral(l)] : l \in 1..MaxLimit}
        \cup {[page |-> Numeral(p), limit |-> Numeral(l)] : p \in 0..MaxPage, l \in 1..MaxLimit}

PagedListQueries ==
    PagedQueries
        \cup {Spread(q, [availability |-> "sold"]) :
                q \in {Obj0, [page |-> Numeral(2), limit |-> Numeral(1)]}}

PagedPriceRanges == {<<Numeral(1), Numeral(2)>>}

PagedFewQueries ==
    {Obj0, [page |-> Numeral(2), limit |-> Numeral(1)], [page |-> Numeral(2), limit |-> Numeral(2)],
     [page |-> Numeral(0), limit |-> Numeral(1)]}

NextPaged ==
    \/ \E id \in ListedIds : Delete(id)
    \/ \E id \in ListedIds : PatchSold(id)
    \/ \E query \in PagedListQueries : GetAll(query)
    \/ \E type \in TypeEnum, query \in PagedFewQueries : GetByType(type, query)
    \/ \E range \in PagedPriceRanges, query \in PagedFewQueries :
            GetByPriceRange(range[1], range[2], query)

SpecPaged == InitListed /\ [][NextPaged]_vars

----------------------------------------------------------------------------
(* Requests of the statistics runs: a filled store, deletes, sales,
   reservations and the statistics *)

StatsPutBodies == {[availability |-> "reserved"], [presentPrice |-> MaxListed]}

NextStats ==
    \/ \E id \in ListedIds : Delete(id)
    \/ \E id \in ListedIds : PatchSold(id)
    \/ \E id \in ListedIds, body \in StatsPutBodies : Put(id, body)
    \/ GetStats

SpecStats == InitListed /\ [][NextStats]_vars

----------------------------------------------------------------------------
(* The statistics scenario: six creates into an empty store, then the
   statistics *)

MaxScenario == 6

ScenarioBodies ==
    {PetrolBody, Spread(ElectricBody, [presentPrice |-> 2]),
     Spread(PetrolBody, [presentPrice |-> 0, availability |-> "sold"]),
     Spread(ElectricBody, [presentPrice |-> 3, availability |-> "sold"])}

NextScenario ==
    \/ \E body \in ScenarioBodies : PostUpTo(body, MaxScenario)
    \/ GetStats

SpecScenario == Init /\ [][NextScenario]_vars

----------------------------------------------------------------------------
(* Requests of the price-range runs: bounds that are numbers, negative
   numbers, text, and numbers followed by text *)

RangeBounds ==
    {Numeral(n) : n \in 0..MaxListed}
        \cup {<<"-", "1">>, <<"a">>, <<"1", "a">>}

RangedQueries == {Obj0, [page |-> Numeral(2), limit |-> Numeral(1)]}

NextRanged ==
    \/ \E id \in ListedIds : Delete(id)
    \/ \E id \in ListedIds : PatchSold(id)
    \/ \E minPrice, maxPrice \in RangeBounds, query \in RangedQueries :
            GetByPriceRange(minPrice, maxPrice, query)

SpecRanged == InitListed /\ [][NextRanged]_vars

----------------------------------------------------------------------------
(* Requests of the filtered runs: GET / with a minPrice, a maxPrice, both or
   none, 0 and a negative bound included *)

Absent == <<>>
Param(f, v) == IF v = Absent THEN Obj0 ELSE f :> v

MinBounds == {Absent, Numeral(0), Numeral(1), Numeral(2), <<"-", "1">>}
MaxBounds == {Absent, Numeral(0), Numeral(1), Numeral(MaxListed)}

BoundQueries ==
    {Param("minPrice", a) @@ Param("maxPrice", b) : a \in MinBounds, b \in MaxBounds}

FilteredQueries ==
    BoundQueries
        \cup {Spread(q, [availability |-> "sold"]) :
                q \in {[minPrice |-> Numeral(1)], [maxPrice |-> Numeral(1)]}}
        \cup {Spread(q, [type |-> "Petrol"]) :
                q \in {[minPrice |-> Numeral(1)], [maxPrice |-> Numeral(1)]}}

TypeValues == {"Petrol", "Electric", "Diesel", "petrol", ""}
ConditionValues == {"Good", "Fair", "Poor", "Bad", ""}

EnumQueries ==
    {[type |-> t] : t \in TypeValues}
        \cup {[condition |-> c] : c \in ConditionValues}
        \cup {[type |-> t, condition |-> c] :
                t \in {"Petrol", "Diesel"}, c \in {"Good", "Bad"}}
        \cup {Spread(q, [availability |-> "sold"]) :
                q \in {[type |-> "Diesel"], [condition |-> "Bad"], [condition |-> "Good"]}}
        \cup {Spread(q, [page |-> Numeral(2), limit |-> Numeral(1)]) :
                q \in {[type |-> "Diesel"], [condition |-> "Bad"]}}

NextFiltered ==
    \/ \E id \in ListedIds : Delete(id)
    \/ \E id \in ListedIds : PatchSold(id)
    \/ \E query \in FilteredQueries \cup EnumQueries : GetAll(query)

SpecFiltered == InitListed /\ [][NextFiltered]_vars

----------------------------------------------------------------------------
(* Requests of the addressed runs: ids that are no ObjectId, ids of stored
   listings and ids of no listing, with valid and invalid update bodies *)

AddressedIds == {MalformedId} \cup 1..(MaxScooters + 1)

AddressedPostBodies == {PetrolBody}

AddressedPutBodies == {[presentPrice |-> 3], [presentPrice |-> -1], [type |-> "Diesel"]}

NextAddressed ==
    \/ \E body \in AddressedPostBodies : Post(body)
    \/ \E id \in AddressedIds : GetById(id)
    \/ \E id \in AddressedIds, body \in AddressedPutBodies : Put(id, body)
    \/ \E id \in AddressedIds : Delete(id)
    \/ \E id \in AddressedIds : PatchSold(id)

SpecAddressed == Init /\ [][NextAddressed]_vars

----------------------------------------------------------------------------
(* Requests of the update runs: PUT with one field or several, valid and
   invalid, on listings that exist, that are soft-deleted and that do not exist *)

UpdatedIds == 1..(MaxScooters + 1)

UpdatedPostBodies == {PetrolBody}

ValidPutBodies ==
    {[presentPrice |-> 3], [year |-> YearMax, condition |-> "Fair"], [type |-> "Electric"]}

InvalidPutBodies ==
    {[presentPrice |-> -1], [year |-> YearMin - 1], [year |-> YearMax + 1],
     [condition |-> "Bad"], [availability |-> "gone"], [presentPrice |-> 3, year |-> YearMin - 1]}

NextUpdated ==
    \/ \E body \in UpdatedPostBodies : Post(body)
    \/ \E id \in UpdatedIds : Delete(id)
    \/ \E id \in UpdatedIds, body \in ValidPutBodies \cup InvalidPutBodies : Put(id, body)

SpecUpdated == Init /\ [][NextUpdated]_vars

----------------------------------------------------------------------------
(* Requests of the seller runs: creates that give the seller and the contact
   email in every way the route reads them, with capitals, padding, empty
   strings and addresses the schema refuses *)

MaxSellerListings == 1

SellerObjects ==
    {[name |-> <<"A", "l">>],
     [email |-> <<"A", "@", "b", ".", "c", "o">>],
     [name |-> <<Space, "A", "l">>, email |-> <<"A", "@", "b", ".", "c", "o">>],
     [name |-> <<>>, email |-> <<>>],
     [name |-> <<Space>>]}

ContactObjects ==
    {[email |-> <<Space, "E", "@", "f", ".", "i", "n">>],
     [email |-> <<Space>>],
     [email |-> <<"x", "@", "y">>]}

SellerNames == {Absent, <<"B", "o">>}
SellerEmails == {Absent, <<"c", "@", "d", ".", "i", "o">>}

SellerBodies ==
    {Spread(PetrolBody, Param("sellerName", n) @@ Param("sellerEmail", e) @@ s @@ c) :
        n \in SellerNames, e \in SellerEmails,
        s \in {Obj0} \cup {[seller |-> o] : o \in SellerObjects},
        c \in {Obj0} \cup {[contactInfo |-> o] : o \in ContactObjects}}

NextSeller ==
    \/ \E body \in SellerBodies : PostUpTo(body, MaxSellerListings)
    \/ \E id \in 1..MaxSellerListings : GetById(id)

SpecSeller == Init /\ [][NextSeller]_vars

----------------------------------------------------------------------------
(* Requests of the counted runs: creates and updates that give the prices and
   the counters, negative ones too, as plain properties and in a $inc *)

MaxCounted == 1
MaxInc == 2

CountedPostBodies ==
    {PetrolBody, Spread(PetrolBody, [presentPrice |-> -1]),
     Spread(PetrolBody, [viewCount |-> -1]), Spread(ElectricBody, [mileage |-> -1])}

CountedSetBodies ==
    {[presentPrice |-> 0], [pastPrice |-> -1], [reviewCount |-> -1],
     [topSpeed |-> -1, daysUsed |-> 0]}

CountedIncBodies ==
    {[p \in {"$inc"} |-> inc] :
        inc \in {[viewCount |-> -1], [presentPrice |-> -1], [reviewCount |-> 1]}}

\* the counters of listing id stay within MaxInc of zero under the $inc of body
IncWithinBound(id, body) ==
    Exists(id) =>
        \A p \in DOMAIN IncOf(body) :
            scooters[id][p] + IncOf(body)[p] \in (0 - MaxInc)..MaxInc

NextCounted ==
    \/ \E body \in CountedPostBodies : PostUpTo(body, MaxCounted)
    \/ \E id \in 1..MaxCounted : GetById(id)
    \/ \E id \in 1..MaxCounted, body \in CountedSetBodies : Put(id, body)
    \/ \E id \in 1..MaxCounted, body \in CountedIncBodies :
          IncWithinBound(id, body) /\ Put(id, body)

SpecCounted == Init /\ [][NextCounted]_vars

----------------------------------------------------------------------------
(* Requests of the listing runs: list requests whose find query and count
   query are separate steps, with creates, soft deletes, updates and mark-sold
   requests of other clients in between *)

ListingQueries ==
    {[limit |-> Numeral(1)], [limit |-> Numeral(2)],
     [page |-> Numeral(2), limit |-> Numeral(1)],
     [page |-> Numeral(0), limit |-> Numeral(1)]}

ListingPutBodies == {[availability |-> "sold"]}

\* the listings the other clients write to
ListingIds == 1..(MaxListed - 1)

NextListing ==
    \/ \E i \in ListedIds : i = lastId + 1 /\ PostUpTo(ListedBody(i), MaxListed)
    \/ \E id \in ListingIds : Delete(id)
    \/ \E id \in ListingIds : PatchSold(id)
    \/ \E id \in ListingIds, body \in ListingPutBodies : Put(id, body)
    \/ \E query \in ListingQueries : FindScooters(1, query)
    \/ CountScooters(1)

SpecListing == InitListed /\ [][NextListing]_vars

----------------------------------------------------------------------------
(* Requests of the counting runs: a statistics request whose queries are
   separate steps, with creates, soft deletes, updates and mark-sold requests
   of other clients in between *)

CountingPutBodies == {[availability |-> "reserved"]}

NextCounting ==
    \/ \E i \in ListedIds : i = lastId + 1 /\ PostUpTo(ListedBody(i), MaxListed)
    \/ \E id \in ListingIds : Delete(id)
    \/ \E id \in ListingIds : PatchSold(id)
    \/ \E id \in ListingIds, body \in CountingPutBodies : Put(id, body)
    \/ StartStats(1)
    \/ NextStatsQuery(1)

SpecCounting == InitListed /\ [][NextCounting]_vars

----------------------------------------------------------------------------
(* Requests of the service request runs: creates, and PUT and DELETE calls
   whose lookup and write are separate steps of two handlers *)

MaxRequests == 2

ServiceBody ==
    [serviceType |-> "insurance",
     contactInfo |-> [name |-> "Guest User", phone |-> "+91 9876543210",
                      email |-> "guest@vahaanbazaar.com"]]

RequestPostBodies ==
    {ServiceBody, Spread(ServiceBody, [status |-> "in-progress"]),
     Without(ServiceBody, "serviceType")}

RequestPutBodies ==
    {[estimatedCost |-> 500], [status |-> "completed"], [status |-> "done"]}

RequestIds == {MalformedId} \cup 1..(MaxRequests + 1)

NextRequests ==
    \/ \E body \in RequestPostBodies : PostRequest(body, MaxRequests)
    \/ \E h \in 1..MaxHandlers, id \in RequestIds, body \in RequestPutBodies :
          FindRequest(h, "request-put", id, body)
    \/ \E h \in 1..MaxHandlers, id \in RequestIds :
          FindRequest(h, "request-delete", id, NoData)
    \/ \E h \in 1..MaxHandlers : PutRequestUpdate(h)
    \/ \E h \in 1..MaxHandlers : DeleteRequestSave(h)

SpecRequests == Init /\ [][NextRequests]_vars

----------------------------------------------------------------------------
(* The contact messages: create, PUT /:id and PATCH /:id/status in any
   order, every new Date() drawn from Times. *)

MaxContacts == 1
MaxTime == 2
Times == 1..MaxTime

ContactBody ==
    [name |-> <<"B", "o">>,
     email |-> <<"c", "@", "d", ".", "i", "o">>,
     subject |-> <<"H", "e", "l", "l", "o">>,
     message |-> <<"H", "e", "l", "l", "o", " ", "t", "e", "a", "m">>]

ContactPostBodies ==
    {ContactBody, Spread(ContactBody, [category |-> "complaint"]),
     Spread(ContactBody, [status |-> "resolved"]),
     Spread(ContactBody, [name |-> <<"B">>])}

ContactPutBodies ==
    {[status |-> "resolved"], [status |-> "new"], [status |-> "done"], [priority |-> "low"]}

ContactStatusBodies ==
    {[status |-> st] : st \in ContactStatusEnum \cup {"", "done"}}
        \cup {Obj0, [status |-> "closed", respondedBy |-> <<"B", "o">>]}

ContactIds == {MalformedId} \cup 1..(MaxContacts + 1)

NextContacts ==
    \/ \E body \in ContactPostBodies, now \in Times : PostContact(body, now, MaxContacts)
    \/ \E id \in ContactIds, body \in ContactPutBodies : PutContact(id, body)
    \/ \E id \in ContactIds, body \in ContactStatusBodies, now \in Times :
          PatchContactStatus(id, body, now)

SpecContacts == Init /\ [][NextContacts]_vars

\* the same run without PUT /:id: every write is a save
NextContactsSaved ==
    \/ \E body \in ContactPostBodies, now \in Times : PostContact(body, now, MaxContacts)
    \/ \E id \in ContactIds, body \in ContactStatusBodies, now \in Times :
          PatchContactStatus(id, body, now)

SpecContactsSaved == Init /\ [][NextContactsSaved]_vars

----------------------------------------------------------------------------
(* The tags of a contact: a contact created without tags, then
   PATCH /:id/tags requests in any order. An add is taken only while the
   list is shorter than MaxTags. *)

MaxTags == 3

TagNames == {<<>>, <<"a">>, <<"A">>, <<"b">>, <<Space, "a">>}
TagNamesTrimmed == {<<>>, <<"a">>, <<"A">>, <<"b">>}
TagActions == {"add", "remove", "clear", ""}

TagBodies(names) ==
    {[action |-> a, tag |-> t] : a \in TagActions, t \in names} \cup {[tag |-> <<"a">>]}

TagsWithinBound(id, body) ==
    (id \in DOMAIN contacts /\ Has(body, "action") /\ body["action"] = "add")
        => Len(contacts[id]["tags"]) < MaxTags

NextTagsOf(names) ==
    \/ \E now \in Times : PostContact(ContactBody, now, MaxContacts)
    \/ \E id \in ContactIds, body \in TagBodies(names) :
          /\ TagsWithinBound(id, body)
          /\ PatchContactTags(id, body)

NextTags == NextTagsOf(TagNames)

SpecTags == Init /\ [][NextTags]_vars

\* the same run with tags that have no space around them
NextTagsTrimmed == NextTagsOf(TagNamesTrimmed)

SpecTagsTrimmed == Init /\ [][NextTagsTrimmed]_vars

----------------------------------------------------------------------------
(* The vocabulary of the claims, written from the data model of the
   specification and not from the validators above *)

NonEmpty(o, f) == Has(o, f) /\ Len(o[f]) > 0
NonBlank(o, f) == Has(o, f) /\ \E i \in 1..Len(o[f]) : o[f][i] # Space

\* the conditional capacity rule on a stored listing
CapacityRule(doc) ==
    /\ doc["type"] = "Petrol" => NonEmpty(doc, "engineCapacity")
    /\ doc["type"] = "Electric" => NonEmpty(doc, "batteryCapacity")

\* the capacity field that goes with the type of a create request
CapacityField(body) == IF body["type"] = "Petrol" THEN "engineCapacity" ELSE "batteryCapacity"

\* a create request whose fields other than the capacities are valid
OtherFieldsValid(body) ==
    /\ Has(body, "type") /\ body["type"] \in TypeEnum
    /\ Has(body, "condition") /\ body["condition"] \in ConditionEnum
    /\ Has(body, "presentPrice") /\ body["presentPrice"] >= 0
    /\ Has(body, "pastPrice") /\ body["pastPrice"] >= 0
    /\ Has(body, "availability") => body["availability"] \in AvailabilityEnum
    /\ Has(body, "year") /\ body["year"] >= 2000 /\ body["year"] <= CurrentYear + 1
    /\ \A p \in {"daysUsed", "mileage", "topSpeed"} : Has(body, p) /\ body[p] >= 0
    /\ \A p \in {"reviewCount", "viewCount"} : Has(body, p) => body[p] >= 0

\* a create request that violates a field constraint
PostViolates(body) ==
    \/ ~OtherFieldsValid(body)
    \/ ~NonBlank(body, CapacityField(body))

\* an update request with a value that violates a field constraint
PutViolates(body) ==
    \/ Has(body, "type") /\ body["type"] \notin TypeEnum
    \/ Has(body, "condition") /\ body["condition"] \notin ConditionEnum
    \/ Has(body, "presentPrice") /\ body["presentPrice"] < 0
    \/ Has(body, "pastPrice") /\ body["pastPrice"] < 0
    \/ Has(body, "availability") /\ body["availability"] \notin AvailabilityEnum
    \/ Has(body, "year") /\ (body["year"] < 2000 \/ body["year"] > CurrentYear + 1)
    \/ \E p \in {"daysUsed", "mileage", "topSpeed", "reviewCount", "viewCount"} :
            Has(body, p) /\ body[p] < 0

StoredIds == DOMAIN scooters

OthersUnchanged(id) == \A y \in StoredIds \ {id} : y \in DOMAIN scooters' /\ scooters'[y] = scooters[y]

ListOps == {"list", "type", "price-range"}

\* a list response to a request that does not override the availability
IsDefaultList(r) ==
    /\ r.op \in ListOps
    /\ r.status = 200
    /\ r.op = "list" => ~Has(r.req, "availability")

ReturnedIds(r) == {r.data.scooters[i]["_id"] : i \in 1..Len(r.data.scooters)}

RequestedAvailability(r) ==
    IF r.op = "list" /\ Has(r.req, "availability") THEN r.req["availability"] ELSE "available"

----------------------------------------------------------------------------
(* Claims *)

\* C1: in every reachable state every stored Petrol listing has a non-empty
\* engineCapacity and every stored Electric listing a non-empty batteryCapacity
\* (a write that would break the rule fails and changes nothing).
C1_CapacityRuleInvariant == \A id \in StoredIds : CapacityRule(scooters[id])

\* C2 as stated: a create with valid other fields is rejected, and stores nothing,
\* when the capacity field of its type is absent or empty, and answers 201 and
\* stores exactly one new listing when that field is present and non-empty.
C2_CreateDecidedByNonEmptyCapacity ==
    [][(res'.op = "post" /\ OtherFieldsValid(res'.req)) =>
        IF NonEmpty(res'.req, CapacityField(res'.req))
        THEN /\ res'.status = 201
             /\ res'.id \notin StoredIds
             /\ DOMAIN scooters' = StoredIds \cup {res'.id}
             /\ OthersUnchanged(res'.id)
        ELSE /\ res'.status # 201
             /\ scooters' = scooters]_vars

\* C2 amended: the same with the capacity field taken after trimming: a field
\* that is absent, empty or only white space rejects the create, any other
\* value makes it succeed with 201 and exactly one new listing.
C2_CreateDecidedByTrimmedCapacity ==
    [][(res'.op = "post" /\ OtherFieldsValid(res'.req)) =>
        IF NonBlank(res'.req, CapacityField(res'.req))
        THEN /\ res'.status = 201
             /\ res'.id \notin StoredIds
             /\ DOMAIN scooters' = StoredIds \cup {res'.id}
             /\ OthersUnchanged(res'.id)
             /\ CapacityRule(scooters'[res'.id])
        ELSE /\ res'.status # 201
             /\ scooters' = scooters]_vars

\* C2 witness: a Petrol create without engineCapacity was rejected while a
\* listing created earlier is in the store.
C2_Witness ==
    /\ res.op = "post" /\ res.status # 201
    /\ OtherFieldsValid(res.req)
    /\ res.req["type"] = "Petrol" /\ ~Has(res.req, "engineCapacity")
    /\ StoredIds # {}

\* C3: every field-constraint violation on create or update, the conditional
\* capacity rule included, is answered 400 with a list of messages, never 500.
C3_ViolationsAnswered400 ==
    /\ (res.op = "post" /\ PostViolates(res.req)) => (res.status = 400 /\ res.errors # {})
    /\ (res.op = "put" /\ PutViolates(res.req)) => (res.status = 400 /\ res.errors # {})
    /\ (res.op = "put" /\ res.status = 200
            /\ DOMAIN res.req \cap {"type", "engineCapacity", "batteryCapacity"} # {})
        => CapacityRule(res.data)

\* C4 as stated: once DELETE has succeeded on a listing, no list response to a
\* request with default filters contains it, whatever requests came between.
C4_DeletedNeverListed ==
    IsDefaultList(res) => ReturnedIds(res) \cap deleted = {}

\* C4 amended: a soft-deleted listing that is still inactive is in no list
\* response to a request with default filters, and stays inactive through every
\* request except a PUT on it that supplies isActive = true.
C4_DeletedHiddenUntilPutActivates ==
    [][\A x \in deleted : ~scooters[x]["isActive"] =>
        \/ /\ ~scooters'[x]["isActive"]
           /\ IsDefaultList(res') => x \notin ReturnedIds(res')
        \/ /\ res'.op = "put" /\ res'.id = x /\ res'.status = 200
           /\ Has(res'.req, "isActive") /\ res'.req["isActive"] = TRUE]_vars

\* C4 witness: a default list response with a listing in it while a soft-deleted
\* listing is in the store.
C4_Witness ==
    /\ IsDefaultList(res)
    /\ ReturnedIds(res) # {}
    /\ \E x \in deleted : ~scooters[x]["isActive"] /\ scooters[x]["availability"] = "available"

\* C5: no request removes a listing: the stored ids only grow, and a successful
\* DELETE changes nothing but isActive, set to false, of the addressed listing.
C5_NeverRemoved ==
    [][/\ StoredIds \subseteq DOMAIN scooters'
       /\ (res'.op = "delete" /\ res'.status = 200) =>
            /\ res'.id \in StoredIds
            /\ DOMAIN scooters' = StoredIds
            /\ scooters'[res'.id] = [scooters[res'.id] EXCEPT !["isActive"] = FALSE]
            /\ OthersUnchanged(res'.id)
            /\ lastId' = lastId]_vars

\* C5 witness: a DELETE answered 200 with two listings stored, the addressed one
\* now inactive and the other active.
C5_Witness ==
    /\ res.op = "delete" /\ res.status = 200
    /\ Cardinality(StoredIds) = 2
    /\ ~scooters[res.id]["isActive"]
    /\ \E y \in StoredIds \ {res.id} : scooters[y]["isActive"]

\* C6: every listing a list endpoint returns is active and has the requested
\* availability: the availability parameter of GET /, available by default, and
\* available for the type and price-range endpoints.
C6_ListedAreActiveAndRequested ==
    (res.op \in ListOps /\ res.status = 200) =>
        \A i \in 1..Len(res.data.scooters) :
            LET d == res.data.scooters[i]
            IN  /\ d["isActive"] = TRUE
                /\ d["availability"] = RequestedAvailability(res)
                /\ scooters[d["_id"]]["isActive"] = TRUE
                /\ scooters[d["_id"]]["availability"] = RequestedAvailability(res)

\* C6 witness: a default list response with a listing in it while the store also
\* holds a sold listing, a reserved or an inactive one.
C6_Witness ==
    /\ IsDefaultList(res)
    /\ ReturnedIds(res) # {}
    /\ \E y \in StoredIds \ ReturnedIds(res) :
          scooters[y]["availability"] # "available" \/ ~scooters[y]["isActive"]

\* C7: GET /:id on an existing listing, active or not, answers 200, raises its
\* stored viewCount by exactly 1, returns the incremented count and changes no
\* other listing.
C7_DetailFetchCounts ==
    [][(res'.op = "get" /\ res'.id \in StoredIds) =>
        /\ res'.status = 200
        /\ scooters'[res'.id] =
              [scooters[res'.id] EXCEPT !["viewCount"] = scooters[res'.id]["viewCount"] + 1]
        /\ res'.data["viewCount"] = scooters[res'.id]["viewCount"] + 1
        /\ OthersUnchanged(res'.id)]_vars

\* the detail fetches, or mark-sold requests, that found listing x
Requests(op, x) ==
    {h \in 1..MaxHandlers :
        handlers[h].op = op /\ handlers[h].id = x /\ handlers[h].pc # "idle"
        /\ handlers[h].status # 404}

AllDone(H) == \A h \in H : handlers[h].pc = "done"

\* C8: when n >= 2 detail fetches of one listing run concurrently (the listing
\* was created with viewCount 0 and nothing else writes viewCount), the final
\* viewCount lies between 1 and n.
C8_ConcurrentViewsBounded ==
    \A x \in StoredIds :
        LET G == Requests("get", x)
        IN  (Cardinality(G) >= 2 /\ AllDone(G)) =>
                /\ scooters[x]["viewCount"] >= 1
                /\ scooters[x]["viewCount"] <= Cardinality(G)

\* C9: when two or more mark-sold requests on one existing listing have all
\* completed, each was answered with success and the listing is sold.
C9_ConcurrentSoldAllSucceed ==
    \A x \in StoredIds :
        LET S == Requests("sold", x)
        IN  (Cardinality(S) >= 2 /\ AllDone(S)) =>
                /\ \A h \in S : handlers[h].status = 200
                /\ scooters[x]["availability"] = "sold"

\* C10: PATCH /:id/sold on an existing listing succeeds whatever its
\* availability, sets availability to sold and leaves isActive, viewCount and
\* the prices of that listing, and every other listing, unchanged.
C10_MarkSoldAlwaysSucceeds ==
    [][(res'.op = "sold" /\ res'.id \in StoredIds) =>
        /\ res'.status = 200
        /\ scooters'[res'.id] = [scooters[res'.id] EXCEPT !["availability"] = "sold"]
        /\ OthersUnchanged(res'.id)]_vars

\* C11: soft delete is idempotent: a DELETE /:id on a listing that is already
\* inactive answers 200, not 404 or an error, and leaves the listing, and the
\* whole store, as it was after the first delete (isActive false, every other
\* field as before).
C11_SecondDeleteSucceedsUnchanged ==
    [][\A id \in StoredIds :
        (res'.op = "delete" /\ res'.id = id /\ ~scooters[id]["isActive"]) =>
            /\ res'.status = 200
            /\ scooters' = scooters
            /\ ~scooters'[id]["isActive"]
            /\ res'.data = toJSON(scooters[id])]_vars

\* C11 witness: a DELETE has answered 200 for a listing that was inactive when
\* the request arrived, and the listing has a view count and a sold mark from
\* before it
C11_Witness ==
    /\ res.op = "delete" /\ res.status = 200
    /\ res.id \in redeleted
    /\ ~scooters[res.id]["isActive"]
    /\ scooters[res.id]["viewCount"] > 0
    /\ scooters[res.id]["availability"] = "sold"

\* the integer nearest to n / d for d > 0, a tie going up
Nearest(n, d) == CHOOSE r \in -100 * MaxPrice..100 : 2 * r * d - d <= 2 * n /\ 2 * n < 2 * r * d + d

\* a response that carries one listing with its derived values
CarriesListing(r) == r.op \in {"post", "get", "put"} /\ r.status \in {200, 201}

\* C12: the derived discount of every listing returned is
\* round((pastPrice - presentPrice) / pastPrice * 100) whenever pastPrice > 0,
\* also when presentPrice = 0, and 0 when pastPrice = 0; for presentPrice 150000
\* and pastPrice 200000 it is 25.
C12_DiscountIsRoundedPercentage ==
    CarriesListing(res) =>
        LET present == res.data["presentPrice"]
            past == res.data["pastPrice"]
        IN  /\ past > 0 => res.data["discount"] = Nearest((past - present) * 100, past)
            /\ past = 0 => res.data["discount"] = 0
            /\ (present = 150000 /\ past = 200000) => res.data["discount"] = 25

\* C13: the derived priceDifference of every listing returned is
\* pastPrice - presentPrice, for all non-negative prices, also when
\* presentPrice = 0 and when pastPrice = 0.
C13_PriceDifferenceIsPastMinusPresent ==
    CarriesListing(res) =>
        res.data["priceDifference"] = res.data["pastPrice"] - res.data["presentPrice"]

\* the number a request writes as a one-digit numeral
ValueOf(s) == CHOOSE n \in 0..9 : Numeral(n) = s

RequestedPage(r) == IF Has(r.req, "page") THEN ValueOf(r.req["page"]) ELSE 1
RequestedLimit(r) == IF Has(r.req, "limit") THEN ValueOf(r.req["limit"]) ELSE 10

\* the stored listings a list request asks for: the active ones with the
\* requested availability, of the requested type, priced within the bounds
MatchingIds(r) ==
    {id \in StoredIds :
        /\ scooters[id]["isActive"]
        /\ scooters[id]["availability"] = RequestedAvailability(r)
        /\ (Has(r.req, "type") /\ r.req["type"] \in TypeEnum) =>
                scooters[id]["type"] = r.req["type"]
        /\ (Has(r.req, "minPrice") /\ r.req["minPrice"] # <<>>) =>
                scooters[id]["presentPrice"] >= ValueOf(r.req["minPrice"])
        /\ (Has(r.req, "maxPrice") /\ r.req["maxPrice"] # <<>>) =>
                scooters[id]["presentPrice"] <= ValueOf(r.req["maxPrice"])}

\* the position of a matching listing in the default order, newest first
Position(r, id) == 1 + Cardinality({y \in MatchingIds(r) : y > id})

Min(a, b) == IF a < b THEN a ELSE b

\* a list response whose content is positions first..last of the matching listings
IsWindow(r, first, last) ==
    /\ Len(r.data.scooters) = (IF last >= first THEN last - first + 1 ELSE 0)
    /\ \A i \in 1..Len(r.data.scooters) :
          LET d == r.data.scooters[i]
          IN  /\ d["_id"] \in MatchingIds(r)
              /\ Position(r, d["_id"]) = first + i - 1
              /\ d = ("_id" :> d["_id"]) @@ scooters[d["_id"]]

\* C14: a list response for page p >= 1 and limit L >= 1 (1 and 10 when
\* omitted) holds exactly positions (p - 1) * L + 1 .. min(p * L, total) of the
\* matching listings in sort order, its totalCount is the number of matching
\* listings and its totalPages is ceil(totalCount / L).
C14_PageIsWindowOfMatching ==
    (res.op \in ListOps /\ res.status = 200
        /\ RequestedPage(res) >= 1 /\ RequestedLimit(res) >= 1) =>
        LET p == RequestedPage(res)
            L == RequestedLimit(res)
            total == Cardinality(MatchingIds(res))
        IN  /\ IsWindow(res, (p - 1) * L + 1, Min(p * L, total))
            /\ res.data.pagination.totalCount = total
            /\ res.data.pagination.totalPages * L >= total
            /\ (res.data.pagination.totalPages - 1) * L < total
            /\ res.data.pagination.totalPages >= 0
            /\ res.data.pagination.currentPage = p

\* C14 witness: a second page that holds the one listing left of two matching
\* ones under a limit of 1, the third listing of the store being sold or deleted
C14_Witness ==
    /\ res.op \in ListOps /\ res.status = 200
    /\ RequestedPage(res) = 2 /\ RequestedLimit(res) = 1
    /\ Len(res.data.scooters) = 1
    /\ res.data.pagination.totalCount = 2
    /\ Cardinality(StoredIds) = 3

\* a GET / with no parameter but page and limit, and the number N of active
\* and available listings it pages through
IsPlainList(r) == r.op = "list" /\ DOMAIN r.req \subseteq {"page", "limit"}
ActiveAvailable ==
    Cardinality({id \in StoredIds :
        scooters[id]["isActive"] /\ scooters[id]["availability"] = "available"})

CeilDiv(n, l) == (n + l - 1) \div l

\* the last page holds the remainder, the pages beyond it nothing
LastPageHoldsRemainder(r, N, L) ==
    /\ r.status = 200
    /\ Len(r.data.scooters) = (IF N % L = 0 THEN L ELSE N % L)
EmptyBeyondLast(r) ==
    /\ r.status = 200
    /\ Len(r.data.scooters) = 0
    /\ r.data.pagination.hasNextPage = FALSE

\* C15 as stated: for every N >= 0 and L >= 1, page ceil(N / L) returns N mod L
\* listings, or L when L divides N, and every page beyond the last is empty
\* with hasNextPage false.
C15_LastPageForEveryN ==
    (IsPlainList(res) /\ RequestedLimit(res) >= 1) =>
        LET N == ActiveAvailable
            L == RequestedLimit(res)
            p == RequestedPage(res)
        IN  /\ p = CeilDiv(N, L) => LastPageHoldsRemainder(res, N, L)
            /\ p > CeilDiv(N, L) => EmptyBeyondLast(res)

\* C15 amended: the same for every N >= 1; with N = 0 there is no last page
\* to request and every page p >= 1 is empty with hasNextPage false.
C15_LastPageForPositiveN ==
    (IsPlainList(res) /\ RequestedLimit(res) >= 1) =>
        LET N == ActiveAvailable
            L == RequestedLimit(res)
            p == RequestedPage(res)
        IN  /\ (N >= 1 /\ p = CeilDiv(N, L)) => LastPageHoldsRemainder(res, N, L)
            /\ (p >= 1 /\ p > CeilDiv(N, L)) => EmptyBeyondLast(res)

\* C15 witness: the last page of three active and available listings under a
\* limit of 2 holds one listing
C15_Witness ==
    /\ IsPlainList(res) /\ res.status = 200
    /\ RequestedPage(res) = 2 /\ RequestedLimit(res) = 2
    /\ ActiveAvailable = 3
    /\ Len(res.data.scooters) = 1

Active == {id \in StoredIds : scooters[id]["isActive"]}
ActiveWith(f, v) == {id \in Active : scooters[id][f] = v}
Offered == ActiveWith("availability", "available")

\* C16: the statistics report total = the number of active listings, available
\* and sold = the number of active listings with that availability, petrol and
\* electric = the number of active listings of that type, and the minimum and
\* maximum price over the active and available listings only; with no such
\* listing the price aggregates are all 0.
C16_StatsCountActive ==
    res.op = "stats" =>
        /\ res.status = 200
        /\ res.data.total = Cardinality(Active)
        /\ res.data.available = Cardinality(Offered)
        /\ res.data.sold = Cardinality(ActiveWith("availability", "sold"))
        /\ res.data.petrol = Cardinality(ActiveWith("type", "Petrol"))
        /\ res.data.electric = Cardinality(ActiveWith("type", "Electric"))
        /\ Offered # {} =>
              /\ \E id \in Offered : scooters[id]["presentPrice"] = res.data.priceStats.minPrice
              /\ \E id \in Offered : scooters[id]["presentPrice"] = res.data.priceStats.maxPrice
              /\ \A id \in Offered :
                    /\ res.data.priceStats.minPrice <= scooters[id]["presentPrice"]
                    /\ scooters[id]["presentPrice"] <= res.data.priceStats.maxPrice
        /\ Offered = {} =>
              /\ res.data.priceStats.minPrice = 0
              /\ res.data.priceStats.maxPrice = 0
              /\ res.data.priceStats.avgPrice.num = 0

\* C16 witness: statistics over a store with an inactive listing, a sold one
\* whose price is below the reported minimum, and an available one
C16_Witness ==
    /\ res.op = "stats"
    /\ StoredIds \ Active # {}
    /\ \E id \in ActiveWith("availability", "sold") :
            scooters[id]["presentPrice"] < res.data.priceStats.minPrice
    /\ Offered # {}

Stored(f, v) == {id \in StoredIds : scooters[id][f] = v}
StoredOffered(type) == Stored("type", type) \cap Stored("availability", "available")

\* the store of the scenario: 3 Petrol and 2 Electric available listings and
\* 1 sold listing, all active
IsScenarioStore ==
    /\ Cardinality(StoredIds) = 6
    /\ Active = StoredIds
    /\ Cardinality(StoredOffered("Petrol")) = 3
    /\ Cardinality(StoredOffered("Electric")) = 2
    /\ Cardinality(Stored("availability", "sold")) = 1

\* the price aggregates are those of the available listings: in the scenario
\* these cost 1 (Petrol) and 2 (Electric), 7 in all
PriceStatsOfOffered ==
    /\ res.data.priceStats.minPrice = 1
    /\ res.data.priceStats.maxPrice = 2
    /\ res.data.priceStats.avgPrice = [num |-> 7, den |-> 5]

\* C17 as stated: after creating 3 Petrol and 2 Electric available listings and
\* 1 sold listing in an empty store, the statistics report total 6, available 5,
\* sold 1, petrol 3, electric 2 and the price aggregates of the 5 available
\* listings.
C17_ScenarioPetrol3Electric2 ==
    (res.op = "stats" /\ IsScenarioStore) =>
        /\ res.data.total = 6 /\ res.data.available = 5 /\ res.data.sold = 1
        /\ res.data.petrol = 3 /\ res.data.electric = 2
        /\ PriceStatsOfOffered

\* C17 amended: the same with the sold listing counted under its type: petrol 4
\* and electric 2 when it is a Petrol listing, petrol 3 and electric 3 when it
\* is an Electric one.
C17_ScenarioSoldCountedByType ==
    (res.op = "stats" /\ IsScenarioStore) =>
        LET soldPetrol == Stored("availability", "sold") \subseteq Stored("type", "Petrol")
        IN  /\ res.data.total = 6 /\ res.data.available = 5 /\ res.data.sold = 1
            /\ res.data.petrol = (IF soldPetrol THEN 4 ELSE 3)
            /\ res.data.electric = (IF soldPetrol THEN 2 ELSE 3)
            /\ PriceStatsOfOffered

\* C17 witness: the statistics of the scenario store, with a sold Electric listing
C17_Witness ==
    /\ res.op = "stats" /\ IsScenarioStore
    /\ Stored("availability", "sold") \subseteq Stored("type", "Electric")

\* a decimal number, with or without a minus sign, and its value
IsDecimal(s) == s # <<>> /\ \A i \in 1..Len(s) : IsDigit(s[i])
IsNumeric(s) == IsDecimal(s) \/ (s # <<>> /\ Head(s) = "-" /\ IsDecimal(Tail(s)))
RECURSIVE DecimalValue(_)
DecimalValue(s) ==
    IF s = <<>> THEN 0
    ELSE 10 * DecimalValue(SubSeq(s, 1, Len(s) - 1)) + DigitValue(s[Len(s)])
NumericValue(s) == IF Head(s) = "-" THEN 0 - DecimalValue(Tail(s)) ELSE DecimalValue(s)

\* the bounds a price-range request must be refused for
BadRange(min, max) ==
    \/ ~IsNumeric(min) \/ ~IsNumeric(max)
    \/ NumericValue(min) < 0 \/ NumericValue(max) < 0
    \/ NumericValue(min) > NumericValue(max)

PricedWithin(min, max) ==
    {id \in Offered :
        /\ NumericValue(min) <= scooters[id]["presentPrice"]
        /\ scooters[id]["presentPrice"] <= NumericValue(max)}

\* C18: GET /price-range/:min/:max answers 400, without data from the store,
\* whenever min > max, a bound is negative or a bound is not numeric; for every
\* 0 <= min <= max it answers 200 with exactly the active, available listings
\* priced within [min, max], paginated.
C18_PriceRangeRefusesBadBounds ==
    res.op = "price-range" =>
        LET min == res.req["minPrice"]
            max == res.req["maxPrice"]
            p == RequestedPage(res)
            L == RequestedLimit(res)
        IN  IF BadRange(min, max)
            THEN res.status = 400 /\ res.data = NoData
            ELSE /\ res.status = 200
                 /\ res.data.pagination.totalCount = Cardinality(PricedWithin(min, max))
                 /\ ReturnedIds(res) \subseteq PricedWithin(min, max)
                 /\ Len(res.data.scooters) =
                        Min(L, Cardinality({id \in PricedWithin(min, max) :
                                Cardinality({y \in PricedWithin(min, max) : y > id}) >= (p - 1) * L}))
                 /\ Cardinality(ReturnedIds(res)) = Len(res.data.scooters)

\* the listings that match the parameters of a GET / other than the prices
MatchingButPrice(r) ==
    {id \in Active :
        /\ scooters[id]["availability"] = RequestedAvailability(r)
        /\ (Has(r.req, "type") /\ r.req["type"] \in TypeEnum) =>
                scooters[id]["type"] = r.req["type"]
        /\ (Has(r.req, "condition") /\ r.req["condition"] \in ConditionEnum) =>
                scooters[id]["condition"] = r.req["condition"]}

\* those of them priced within the bounds the request gives
WithinGivenBounds(r) ==
    {id \in MatchingButPrice(r) :
        /\ Has(r.req, "minPrice") => scooters[id]["presentPrice"] >= NumericValue(r.req["minPrice"])
        /\ Has(r.req, "maxPrice") => scooters[id]["presentPrice"] <= NumericValue(r.req["maxPrice"])}

HasIntegerBounds(r) ==
    /\ Has(r.req, "minPrice") => IsNumeric(r.req["minPrice"])
    /\ Has(r.req, "maxPrice") => IsNumeric(r.req["maxPrice"])

\* C19: on GET / minPrice and maxPrice form a closed interval on presentPrice
\* and each works alone: the result is exactly the matching listings with
\* presentPrice >= minPrice when minPrice is given and presentPrice <= maxPrice
\* when maxPrice is given, for every integer bound, 0 included.
C19_PriceBoundsFilterClosedInterval ==
    (res.op = "list" /\ HasIntegerBounds(res) /\ DOMAIN res.req \cap {"page", "limit"} = {}) =>
        /\ res.status = 200
        /\ ReturnedIds(res) = WithinGivenBounds(res)
        /\ Len(res.data.scooters) = Cardinality(WithinGivenBounds(res))
        /\ res.data.pagination.totalCount = Cardinality(WithinGivenBounds(res))

\* C19 witness: a maxPrice of 0 alone returns the one listing that costs 0 and
\* leaves out a dearer one that matches otherwise
C19_Witness ==
    /\ res.op = "list" /\ res.status = 200
    /\ DOMAIN res.req = {"maxPrice"} /\ res.req["maxPrice"] = Numeral(0)
    /\ Cardinality(ReturnedIds(res)) = 1
    /\ MatchingButPrice(res) \ ReturnedIds(res) # {}

\* the answer to a GET / with the given parameters, on the store as it is
AnswerTo(query) == Page(BuildFilter(query), BuildFilter(query), query)

IsPaged(r) == DOMAIN r.req \cap {"page", "limit"} # {}

\* C20: on GET / a type outside Petrol, Electric or a condition outside
\* Excellent, Good, Fair, Poor is ignored: the request is answered 200 with
\* exactly the result of the same request without that parameter; a valid value
\* restricts the result to the listings with that type or condition.
C20_InvalidEnumFilterIgnored ==
    res.op = "list" =>
        /\ (Has(res.req, "type") /\ res.req["type"] \notin TypeEnum) =>
                res.status = 200 /\ res.data = AnswerTo(Without(res.req, "type"))
        /\ (Has(res.req, "condition") /\ res.req["condition"] \notin ConditionEnum) =>
                res.status = 200 /\ res.data = AnswerTo(Without(res.req, "condition"))
        /\ (Has(res.req, "type") /\ res.req["type"] \in TypeEnum /\ ~IsPaged(res)) =>
                /\ res.status = 200
                /\ ReturnedIds(res) =
                      {id \in ReturnedIds([data |-> AnswerTo(Without(res.req, "type"))]) :
                            scooters[id]["type"] = res.req["type"]}
        /\ (Has(res.req, "condition") /\ res.req["condition"] \in ConditionEnum /\ ~IsPaged(res)) =>
                /\ res.status = 200
                /\ ReturnedIds(res) =
                      {id \in ReturnedIds([data |-> AnswerTo(Without(res.req, "condition"))]) :
                            scooters[id]["condition"] = res.req["condition"]}

\* C20 witness: a request with a condition outside the enum is answered with
\* listings of two different conditions
C20_Witness ==
    /\ res.op = "list" /\ res.status = 200
    /\ Has(res.req, "condition") /\ res.req["condition"] = "Bad"
    /\ \E i, j \in 1..Len(res.data.scooters) :
            res.data.scooters[i]["condition"] # res.data.scooters[j]["condition"]

AddressedOps == {"get", "put", "delete", "sold"}

\* the answer to a request with an id that is no id: 400 and no list of
\* validation messages; to a request for a listing that does not exist: 404
AnsweredMalformed(r) == r.status = 400 /\ r.errors = {}
AnsweredNotFound(r) == r.status = 404

\* C21 as stated: for GET /:id, PUT /:id, DELETE /:id and PATCH /:id/sold a
\* malformed id is answered 400, a well-formed id of no record 404, never the
\* other way round, and the store is left unchanged in both cases.
C21_MalformedIs400MissingIs404 ==
    [][(res'.op \in AddressedOps /\ res'.id \notin StoredIds) =>
        /\ scooters' = scooters
        /\ res'.id = MalformedId => (AnsweredMalformed(res') /\ ~AnsweredNotFound(res'))
        /\ res'.id # MalformedId => (AnsweredNotFound(res') /\ ~AnsweredMalformed(res'))]_vars

\* C21 amended: the same, except that a PUT whose body violates a field
\* constraint is answered 400 with the validation messages when its well-formed
\* id resolves to no record: the body is validated before the record is looked
\* up. The answer to a malformed id carries no validation messages.
C21_MissingIs404UnlessBodyInvalid ==
    [][(res'.op \in AddressedOps /\ res'.id \notin StoredIds) =>
        /\ scooters' = scooters
        /\ res'.id = MalformedId => (AnsweredMalformed(res') /\ ~AnsweredNotFound(res'))
        /\ res'.id # MalformedId =>
              IF res'.op = "put" /\ PutViolates(res'.req)
              THEN res'.status = 400 /\ res'.errors # {}
              ELSE AnsweredNotFound(res') /\ ~AnsweredMalformed(res')]_vars

\* C21 witness: a PATCH /:id/sold for a well-formed id of no record is answered
\* 404 while the store holds a listing
C21_Witness ==
    /\ res.op = "sold" /\ res.id # MalformedId /\ res.id \notin StoredIds
    /\ res.status = 404
    /\ StoredIds # {}

\* a listing with exactly the supplied fields replaced
Replaced(doc, supplied) ==
    [p \in DOMAIN doc \cup DOMAIN supplied |-> IF Has(supplied, p) THEN supplied[p] ELSE doc[p]]

\* PUT on an existing listing: 400 and nothing changed for a violating value,
\* otherwise exactly the supplied fields replaced
PutOnExisting(id) ==
    IF PutViolates(res'.req)
    THEN res'.status = 400 /\ scooters' = scooters
    ELSE /\ res'.status = 200
         /\ scooters'[id] = Replaced(scooters[id], res'.req)
         /\ DOMAIN scooters' = StoredIds /\ OthersUnchanged(id)

\* C22 as stated: PUT /:id on an existing listing, active or soft-deleted,
\* replaces exactly the supplied fields; a value that violates a field
\* constraint (negative price, year out of range, value outside an enum) is
\* answered 400 and leaves the record unchanged; a well-formed id of no record
\* is answered 404.
C22_PutValidatesAndMissingIs404 ==
    [][(res'.op = "put" /\ res'.id # MalformedId) =>
        IF res'.id \in StoredIds
        THEN PutOnExisting(res'.id)
        ELSE res'.status = 404 /\ scooters' = scooters]_vars

\* C22 amended: the same, with 404 for a well-formed id of no record when the
\* body passes the validators, and 400 when a value of the body violates a
\* field constraint: the body is validated before the record is looked up.
C22_PutValidatesBeforeLookup ==
    [][(res'.op = "put" /\ res'.id # MalformedId) =>
        IF res'.id \in StoredIds
        THEN PutOnExisting(res'.id)
        ELSE /\ scooters' = scooters
             /\ res'.status = (IF PutViolates(res'.req) THEN 400 ELSE 404)]_vars

\* C22 witness: a PUT of a year out of range on a soft-deleted listing, whose
\* price an earlier PUT replaced, is answered 400
C22_Witness ==
    /\ res.op = "put" /\ res.status = 400 /\ res.id \in StoredIds
    /\ Has(res.req, "year") /\ res.req["year"] > YearMax
    /\ ~scooters[res.id]["isActive"]
    /\ scooters[res.id]["presentPrice"] = 3

----------------------------------------------------------------------------
(* C23: seller and contact email of a created listing *)

\* the first of the values that is given, that is, present and not empty
FirstGiven(values) ==
    IF \E i \in 1..Len(values) : values[i] # <<>>
    THEN values[CHOOSE i \in 1..Len(values) :
                    values[i] # <<>> /\ \A j \in 1..(i - 1) : values[j] = <<>>]
    ELSE <<>>

CreatedAnswer == res.op = "post" /\ res.status = 201

SuppliedSellerName ==
    FirstGiven(<<Field(Nested(res.req, "seller"), "name"), Field(res.req, "sellerName"), Anonymous>>)
SuppliedSellerEmail ==
    FirstGiven(<<Field(Nested(res.req, "seller"), "email"), Field(res.req, "sellerEmail"),
                 NoReplyEmail>>)
SuppliedContactEmail == Field(Nested(res.req, "contactInfo"), "email")

\* the listing of the answer, as answered and as stored
CreatedListings == {res.data, scooters[res.id]}

\* C23 as stated: after every successful create the seller name is the supplied
\* seller.name, else sellerName, else Anonymous, the seller email is the
\* supplied seller.email, else sellerEmail, else the placeholder, and
\* contactInfo.email is never empty, being the supplied contactInfo.email if
\* given and else the resulting seller email, every value exactly as supplied.
C23_SellerAsSupplied ==
    CreatedAnswer =>
        \A listing \in CreatedListings :
            /\ listing["seller"]["name"] = SuppliedSellerName
            /\ listing["seller"]["email"] = SuppliedSellerEmail
            /\ listing["contactInfo"]["email"] # <<>>
            /\ listing["contactInfo"]["email"] =
                   IF SuppliedContactEmail # <<>> THEN SuppliedContactEmail
                   ELSE listing["seller"]["email"]

\* C23, amended: the same with every value as the schema stores it, the name
\* trimmed, the emails trimmed and lowercased, and contactInfo.email falling
\* back to the resulting seller email also when the supplied one is blank.
C23_SellerAsStored ==
    CreatedAnswer =>
        \A listing \in CreatedListings :
            /\ listing["seller"]["name"] = trim(SuppliedSellerName)
            /\ listing["seller"]["email"] = toLowerCase(trim(SuppliedSellerEmail))
            /\ listing["contactInfo"]["email"] # <<>>
            /\ listing["contactInfo"]["email"] =
                   IF trim(SuppliedContactEmail) # <<>>
                   THEN toLowerCase(trim(SuppliedContactEmail))
                   ELSE listing["seller"]["email"]

\* a create that gives only sellerName is answered 201 and stores that name,
\* the placeholder as seller email and the placeholder as contact email
C23_Witness ==
    /\ CreatedAnswer
    /\ DOMAIN res.req \cap {"seller", "sellerEmail", "contactInfo"} = {}
    /\ Has(res.req, "sellerName")
    /\ scooters[res.id]["seller"]["name"] = res.req["sellerName"]
    /\ scooters[res.id]["contactInfo"]["email"] = NoReplyEmail

----------------------------------------------------------------------------
(* C24: prices and counters are never negative *)

CountPaths ==
    {"presentPrice", "pastPrice", "mileage", "daysUsed", "topSpeed", "viewCount", "reviewCount"}

NoNegativeStored(store) ==
    \A id \in DOMAIN store : \A p \in CountPaths \cap DOMAIN store[id] : store[id][p] >= 0

\* the request answered by r is a create or an update whose plain properties
\* hold a negative price or counter
GivesNegative(r) ==
    /\ r.op \in {"post", "put"}
    /\ \E p \in CountPaths \cap DOMAIN r.req : r.req[p] < 0

\* the request answered by r is an update whose $inc takes a price or a
\* counter of the stored listing below zero
TakesBelowZero(r) ==
    /\ r.op = "put"
    /\ Exists(r.id)
    /\ \E p \in CountPaths \cap DOMAIN IncOf(r.req) \cap DOMAIN scooters[r.id] :
          scooters[r.id][p] + IncOf(r.req)[p] < 0

\* C24 as stated: every stored listing has presentPrice, pastPrice, mileage,
\* daysUsed, topSpeed, viewCount and reviewCount of at least 0, and a create or
\* an update that would store a negative value is rejected with 400 and leaves
\* the store unchanged.
C24_CountsNeverNegative ==
    [][/\ NoNegativeStored(scooters')
       /\ (GivesNegative(res') \/ TakesBelowZero(res')) =>
             (res'.status = 400 /\ scooters' = scooters)]_vars

\* C24 for requests without update operators: negative plain properties are
\* refused and the store is unchanged
C24_PlainNegativeRefused ==
    [][GivesNegative(res') => (res'.status = 400 /\ scooters' = scooters)]_vars

----------------------------------------------------------------------------
(* C25: the page of a list response against limit and totalCount *)

\* handler h answers a list request in this step
AnswersList(h) == handlers[h].pc = "listed" /\ handlers'[h].pc = "done"

\* C25 as stated: in every list response the number of listings returned is at
\* most totalCount and at most limit, also when writes of other clients run
\* between the find query and the count query.
C25_ReturnedWithinLimitAndCount ==
    [][\A h \in 1..MaxHandlers :
          AnswersList(h) =>
              /\ Len(res'.data.scooters) <= RequestedLimit(res')
              /\ Len(res'.data.scooters) <= res'.data.pagination.totalCount]_vars

\* C25, amended: the number returned is at most limit in every list response,
\* and at most totalCount when the collection is the same at the count query
\* as it was at the find query.
C25_ReturnedWithinCountIfUnchanged ==
    [][\A h \in 1..MaxHandlers :
          AnswersList(h) =>
              /\ Len(res'.data.scooters) <= RequestedLimit(res')
              /\ handlers[h].doc.store = scooters =>
                    Len(res'.data.scooters) <= res'.data.pagination.totalCount]_vars

\* a list request answered with a full page of two and a totalCount of at
\* least two after a write of another client ran between its find query and
\* its count query
C25_Witness ==
    /\ res.op = "list" /\ res.status = 200
    /\ \E h \in 1..MaxHandlers :
          /\ handlers[h].pc = "done" /\ handlers[h].op = "list" /\ handlers[h].status = 200
          /\ handlers[h].doc.changed
    /\ Len(res.data.scooters) = 2
    /\ RequestedLimit(res) = 2
    /\ res.data.pagination.totalCount >= 2

----------------------------------------------------------------------------
(* C26: hasNextPage and hasPrevPage *)

\* a list request for a page of at least 1 with a limit of at least 1, answered
PagedAnswer(r) ==
    /\ r.op \in ListOps /\ r.status = 200
    /\ RequestedPage(r) >= 1 /\ RequestedLimit(r) >= 1

\* the matching listings that come after page p of L listings
BeyondPage(r, p, L) == {id \in MatchingIds(r) : Position(r, id) > p * L}

\* C26: for every list request with page >= 1 and limit >= 1 served without
\* concurrent writes, hasNextPage is true exactly when page * limit < totalCount,
\* that is exactly when the next page holds at least one listing, and
\* hasPrevPage is true exactly when page > 1.
C26_HasNextAndPrevPage ==
    PagedAnswer(res) =>
        LET p == RequestedPage(res)
            L == RequestedLimit(res)
            pagination == res.data.pagination
        IN  /\ pagination.hasNextPage <=> p * L < pagination.totalCount
            /\ pagination.hasNextPage <=> BeyondPage(res, p, L) # {}
            /\ pagination.hasPrevPage <=> p > 1

\* page 2 of 3 matching listings with limit 1: a page before and a page after
C26_Witness ==
    /\ PagedAnswer(res)
    /\ RequestedPage(res) = 2 /\ RequestedLimit(res) = 1
    /\ res.data.pagination.totalCount = 3
    /\ res.data.pagination.hasNextPage /\ res.data.pagination.hasPrevPage

----------------------------------------------------------------------------
(* C27: the counts of a statistics response against each other *)

\* handler h answers a statistics request in this step, and every query of it
\* saw the same collection
AnswersStatsUnchanged(h) ==
    /\ handlers[h].pc = "counting" /\ handlers'[h].pc = "done"
    /\ ~handlers[h].doc.changed /\ handlers[h].doc.store = scooters

ActiveReserved ==
    Cardinality({id \in StoredIds :
        scooters[id]["isActive"] /\ scooters[id]["availability"] = "reserved"})

\* C27: in every statistics response computed without concurrent writes,
\* petrol + electric = total and available + sold <= total, the difference
\* being the active reserved listings (that writes between the count queries
\* can break these relations is what the witness shows).
C27_CountsAgreeWithoutWrites ==
    [][\A h \in 1..MaxHandlers :
          AnswersStatsUnchanged(h) =>
              /\ res'.data.petrol + res'.data.electric = res'.data.total
              /\ res'.data.available + res'.data.sold <= res'.data.total
              /\ res'.data.total - (res'.data.available + res'.data.sold) = ActiveReserved]_vars

\* a statistics response, computed while a create ran between the total count
\* and the other counts, in which petrol + electric exceeds total and
\* available + sold exceeds total
C27_Witness ==
    /\ res.op = "stats" /\ res.status = 200
    /\ \E h \in 1..MaxHandlers :
          /\ handlers[h].pc = "done" /\ handlers[h].op = "stats"
          /\ handlers[h].doc.changed
    /\ res.data.petrol + res.data.electric # res.data.total
    /\ res.data.available + res.data.sold > res.data.total

----------------------------------------------------------------------------
(* C28: a service request changes only while pending *)

\* handler h answers a PUT or DELETE /request/:id call in this step
AnswersRequest(h) ==
    /\ handlers'[h] # handlers[h]
    /\ handlers'[h].pc = "done"
    /\ handlers'[h].op \in {"request-put", "request-delete"}

\* C28: under any sequence or interleaving of PUT /request/:id and
\* DELETE /request/:id calls, a request whose stored status is in-progress,
\* completed or cancelled is never modified and such a call is answered 400;
\* DELETE on a pending request sets its status to cancelled and never removes
\* the record.
C28_ChangedOnlyWhilePending ==
    [][/\ \A id \in DOMAIN requests :
             /\ id \in DOMAIN requests'
             /\ requests[id]["status"] # "pending" => requests'[id] = requests[id]
       /\ \A h \in 1..MaxHandlers :
             AnswersRequest(h) =>
                 LET id == handlers'[h].id
                 IN  /\ (id \in DOMAIN requests /\ requests[id]["status"] # "pending") =>
                            res'.status = 400
                     /\ (handlers'[h].op = "request-delete" /\ res'.status = 200) =>
                            requests'[id]["status"] = "cancelled"]_vars

----------------------------------------------------------------------------
(* C29 *)

\* every resolved or closed contact of the collection c has respondedAt
RespondedWhenResolved(c) ==
    \A i \in DOMAIN c : isResolved(c[i]) => Has(c[i], "respondedAt")

\* the step keeps every respondedAt that was set
RespondedAtKept ==
    \A i \in DOMAIN contacts :
        Has(contacts[i], "respondedAt") =>
            /\ i \in DOMAIN contacts'
            /\ Has(contacts'[i], "respondedAt")
            /\ contacts'[i]["respondedAt"] = contacts[i]["respondedAt"]

\* C29: after every contact operation (create, PUT /:id, PATCH /:id/status)
\* every contact whose status is resolved or closed has respondedAt set, and
\* a respondedAt that was set is the same after the operation.
C29_ResolvedHasRespondedAt ==
    [][RespondedWhenResolved(contacts') /\ RespondedAtKept]_vars

----------------------------------------------------------------------------
(* C30 *)

\* how often tag t occurs in the list
Occurrences(tags, t) == Cardinality({i \in 1..Len(tags) : tags[i] = t})

\* the list holds lowercased tags only and none twice
LowercasedNoDuplicates(tags) ==
    \A i \in 1..Len(tags) :
        /\ tags[i] = toLowerCase(tags[i])
        /\ Occurrences(tags, tags[i]) = 1

\* the step answers a PATCH /:id/tags on a stored contact
AnswersTags ==
    /\ res'.op = "contact-tags"
    /\ res'.id \in DOMAIN contacts
    /\ Has(res'.req, "tag")

\* what the step answering PATCH /:id/tags with this action and tag has to do
TagsAnswered(id, action, tag) ==
    /\ LowercasedNoDuplicates(contacts'[id]["tags"])
    /\ (action = "add" /\ tag # <<>>) =>
            /\ res'.status = 200
            /\ Occurrences(contacts'[id]["tags"], toLowerCase(tag)) = 1
            /\ Occurrences(contacts[id]["tags"], toLowerCase(tag)) > 0
                  => contacts'[id]["tags"] = contacts[id]["tags"]
    /\ (action = "remove" /\ tag # <<>>) =>
            /\ res'.status = 200
            /\ Occurrences(contacts'[id]["tags"], toLowerCase(tag)) = 0
    /\ action \notin {"add", "remove"} =>
            /\ res'.status = 400
            /\ contacts' = contacts

\* C30: on a contact created without tags, every PATCH /:id/tags leaves a
\* list of lowercased tags without duplicates; an add makes the lowercased
\* form of the tag present exactly once and changes nothing when it was
\* present; a remove leaves no occurrence of it; any other action is
\* answered 400 and leaves the list unchanged.
C30_TagsLowercasedOnce ==
    [][AnswersTags =>
          TagsAnswered(res'.id, IF Has(res'.req, "action") THEN res'.req["action"] ELSE "",
                       res'.req["tag"])]_vars

====
